---- MODULE Spec2Model ----
(***************************************************************************)
(* A model of fhir-package-installer (src/unnamed/part_011, the current    *)
(* src/index.ts of the package): the install orchestrator over a shared    *)
(* package cache, and the registry client (retry, redirect, auth, http).   *)
(*                                                                         *)
(* Strings are sequences of tokens: a token is an atom of the string       *)
(* ("@", "#", ".", " ", a name, a version), so split, trim, includes,      *)
(* startsWith and concatenation are computed on the sequence.              *)
(***************************************************************************)
EXTENDS Integers, Sequences, FiniteSets, TLC

VARIABLES
    cache,        \* the cache root: directory name -> staged tree moved there
    pstack,       \* per caller: the stack of install() frames awaiting each other
    staged,       \* per caller: the temp directory of the extraction in flight
    result,       \* per caller: outcome of the current top-level install() call
    budget,       \* per caller: top-level calls still to be made
    req,          \* the identifier every top-level call is made with
    skipExamples, \* FpiConfig.skipExamples
    netLog,       \* per caller: requests sent during the current top-level call
    attempts,     \* per caller: identifiers install() was invoked with, in order
    failure,      \* per caller: the first fatal failure of the current call
    snap,         \* per caller: the cache as it was when the current call began
    prev,         \* per caller: outcome of the previous top-level call
    warned,       \* per caller: logger.warn('... already installed by another process')
    fcfg,         \* one fetch: the operation, its first URL, registryToken, allowHttp
    fstack,       \* one fetch: fetchJson/fetchStream invocations, one per redirect hop
    fresult,      \* one fetch: pending, resolved, or rejected with an error
    sent,         \* one fetch: the requests put on the wire, in order
    hopLog,       \* one fetch: logger.info('Following redirect from .. to ..')
    lastStatus,   \* one fetch: status of the latest response received
    tmrAt,        \* one fetch: requests sent when 'Too many redirects' was raised
    pure,         \* one call of a function of the installer: arguments and value
    ix,           \* one package: its tarball, its directory, its index file, and
                  \* what getPackageIndexFile returned
    ops,          \* calls of the public operations over the cache: the latest
                  \* call, what it returned, the download destination
    ex,           \* one process: its extractions and index generations, the
                  \* work items they gave to the limiter
    loc           \* one cache entry file by file, and three concurrent calls
                  \* on it: installLocalPackage, install, getPackageIndexFile

installVars == <<cache, pstack, staged, result, budget, req, skipExamples,
                 netLog, attempts, failure, snap, prev, warned>>

fetchVars == <<fcfg, fstack, fresult, sent, hopLog, lastStatus, tmrAt>>

vars == <<installVars, fetchVars, pure, ix, ops, ex, loc>>

(***************************************************************************)
(* Bounds                                                                  *)
(***************************************************************************)
NProcs == 2
MaxCalls == 2
MaxChain == 7
MaxOps == 2
MaxDepth == 4
MaxMembers == 2
NEntries == 2
NFiles == 3
NCpus == 2

(***************************************************************************)
(* Program constants                                                       *)
(***************************************************************************)
Retries == 3
DelayMs == 5000
MaxRedirects == 5

Procs == 1..NProcs

None == "none"

\* no failure recorded: the failure's kind, and how many install() invocations
\* the call had made when it happened
NoFailure == [err |-> None, at |-> 0]

(***************************************************************************)
(* Token strings                                                           *)
(***************************************************************************)
RECURSIVE Split(_, _)
Split(s, sep) ==
    IF \A k \in DOMAIN s : s[k] # sep
    THEN <<s>>
    ELSE LET k == CHOOSE k \in DOMAIN s :
                      s[k] = sep /\ \A j \in 1..(k - 1) : s[j] # sep
         IN <<SubSeq(s, 1, k - 1)>> \o Split(SubSeq(s, k + 1, Len(s)), sep)

RECURSIVE Trim(_)
Trim(s) ==
    IF s = <<>> THEN s
    ELSE IF Head(s) = " " THEN Trim(Tail(s))
    ELSE IF s[Len(s)] = " " THEN Trim(SubSeq(s, 1, Len(s) - 1))
    ELSE s

Includes(s, tok) == \E k \in DOMAIN s : s[k] = tok

Latest == <<"latest">>

(***************************************************************************)
(* The world: the registry's metadata and the tarballs it serves           *)
(***************************************************************************)
App == <<"app">>
AppExamples == <<"app", ".", "examples">>
Lib == <<"lib">>
Base == <<"base">>
R4Core == <<"hl7.fhir.r4.core">>
Bad == <<"bad">>
Ghost == <<"ghost">>
Untagged == <<"untagged">>
Fixtures == <<"fixtures">>
Locked == <<"locked">>
RingA == <<"ring-a">>
RingB == <<"ring-b">>
OnRing == <<"on-ring">>
Denied == <<"denied">>

V100 == <<"1.0.0">>
V400 == <<"4.0.0">>
V401 == <<"4.0.1">>
V999 == <<"9.9.9">>

\* a property that is not there
Undefined == <<"undefined">>

\* FhirPackageInstaller.registryUrl as constructed, and fallbackUrlBase
DefaultRegistryUrl == <<"https:", "//", "packages.fhir.org">>
FallbackUrlBase == <<"https:", "//", "packages.simplifier.net">>

\* GET {registry}/{name}/ : the metadata document, or the status of the refusal
RegistryData(name) ==
    CASE name = App         -> [status |-> 200, latest |-> V100, versions |-> {V100}]
      [] name = AppExamples -> [status |-> 200, latest |-> V100, versions |-> {V100}]
      [] name = Lib         -> [status |-> 200, latest |-> V100, versions |-> {V100}]
      [] name = Base        -> [status |-> 200, latest |-> V100, versions |-> {V100}]
      [] name = R4Core      -> [status |-> 200, latest |-> V401, versions |-> {V400, V401}]
      [] name = Bad         -> [status |-> 200, latest |-> V100, versions |-> {V100}]
      [] name = Fixtures    -> [status |-> 200, latest |-> V100, versions |-> {V100}]
      [] name = Untagged    -> [status |-> 200, latest |-> None, versions |-> {V100}]
      [] name = Locked      -> [status |-> 401, latest |-> None, versions |-> {}]
      [] name = RingA       -> [status |-> 200, latest |-> V100, versions |-> {V100}]
      [] name = RingB       -> [status |-> 200, latest |-> V100, versions |-> {V100}]
      [] name = OnRing      -> [status |-> 200, latest |-> V100, versions |-> {V100}]
      [] name = Denied      -> [status |-> 403, latest |-> None, versions |-> {}]
      [] OTHER              -> [status |-> 404, latest |-> None, versions |-> {}]

\* package.json "dependencies" of the tarball of name@version, in file order
ManifestDeps(name, version) ==
    CASE name = App  -> << <<Lib, V100>>, <<AppExamples, V100>>, <<R4Core, V400>> >>
      [] name = AppExamples -> << <<Base, V100>>, <<Fixtures, V100>> >>
      [] name = Lib  -> << <<Base, V100>> >>
      [] name = Bad  -> << <<Base, V100>>, <<Ghost, V100>>, <<Lib, V100>> >>
      [] name = RingA  -> << <<RingB, V100>> >>
      [] name = RingB  -> << <<RingA, V100>> >>
      [] name = OnRing -> << <<Base, V100>>, <<RingA, V100>> >>
      [] OTHER       -> << >>

\* the files of the tarball of name@version under package/
ArchiveFiles(name, version) ==
    IF name = Base THEN {"package.json", "StructureDefinition-a.json"}
    ELSE {"package.json", "StructureDefinition-a.json", "ValueSet-b.json"}

(***************************************************************************)
(* Identifiers                                                             *)
(***************************************************************************)
StrArg(s) == [form |-> "string", str |-> s]
ObjArg(id, version) == [form |-> "object", id |-> id, version |-> version]

\* the identifiers a top-level install() is called with
Requests ==
    { StrArg(App \o <<"@">> \o V100),
      StrArg(App),
      StrArg(<<" ">> \o App \o <<"#">> \o V100),
      ObjArg(App, V100),
      StrArg(Bad \o <<"@">> \o V100),
      ObjArg(Ghost, V100),
      StrArg(Ghost),
      StrArg(Untagged),
      ObjArg(Lib, V999),
      ObjArg(Lib, Latest),
      ObjArg(Locked, V100),
      StrArg(Denied \o <<"@">> \o V100),
      StrArg(Denied),
      StrArg(<<" ">>) }

\* the identifiers the concurrent callers share
ConcurrentRequests ==
    { StrArg(Lib \o <<"@">> \o V100),
      StrArg(Ghost \o <<"@">> \o V100) }

\* toDirName: id + '#' + version
ToDirName(obj) == obj.id \o <<"#">> \o obj.version

\* variant: only the '#' separator is understood
GetVersionFromPackageString_PoundOnly(s) ==
    LET byPound == Split(s, "#")
    IN IF Len(byPound) = 2 THEN byPound[2] ELSE Latest

\* getVersionFromPackageString
GetVersionFromPackageString(s) ==
    LET byPound == Split(s, "#")
        byAt == Split(s, "@")
    IN IF Len(byPound) = 2 THEN byPound[2]
       ELSE IF Len(byAt) = 2 THEN byAt[2]
       ELSE Latest

\* fetchJson's translation of an HTTP error status (>= 400) into a failure
JsonStatusError(status) ==
    IF status = 403 THEN "AuthorizationFailed"
    ELSE IF status = 401 THEN "AuthenticationFailed"
    ELSE "RegistryError"

\* checkLatestPackageDist: the latest version, or the failure it rejects with
CheckLatestPackageDist(name) ==
    LET data == RegistryData(name)
    IN IF data.status >= 400 THEN [ok |-> FALSE, err |-> JsonStatusError(data.status)]
       ELSE IF data.latest = None THEN [ok |-> FALSE, err |-> "PackageNotFound"]
       ELSE [ok |-> TRUE, version |-> data.latest]

\* toPackageObject, with the metadata requests it sends
ToPackageObject(arg) ==
    LET trimmed == Trim(arg.str)
        name == IF arg.form = "string"
                THEN Split(Split(trimmed, "#")[1], "@")[1]
                ELSE arg.id
        version == IF arg.form = "string"
                   THEN GetVersionFromPackageString(trimmed)
                   ELSE IF arg.version = <<>> THEN Latest ELSE arg.version
        dist == CheckLatestPackageDist(name)
    IN IF arg.form = "string" /\ trimmed = <<>>
       THEN [ok |-> FALSE, err |-> "InvalidIdentifier", net |-> {}]
       ELSE IF version # Latest
       THEN [ok |-> TRUE, obj |-> [id |-> name, version |-> version], net |-> {}]
       ELSE IF dist.ok
       THEN [ok |-> TRUE, obj |-> [id |-> name, version |-> dist.version],
             net |-> {<<"meta", name>>}]
       ELSE [ok |-> FALSE, err |-> dist.err, net |-> {<<"meta", name>>}]

\* variant: a directory the installer has seen stays installed
IsInstalled_Remembered(obj) ==
    ToDirName(obj) \in DOMAIN cache \/ ToDirName(obj) \in DOMAIN ops.before

\* isInstalled: the cache directory exists
IsInstalled(obj) == ToDirName(obj) \in DOMAIN cache

\* `${base}/${id}/-/${id}-${version}.tgz`
TemplateUrl(base, obj) ==
    base \o <<"/">> \o obj.id \o <<"/", "-", "/">> \o obj.id \o <<"-">>
         \o obj.version \o <<".tgz">>

\* the metadata document of name as getPackageDataFromRegistry returns it:
\* versions[v] holds dist.tarball and url
PackageData(name) ==
    [status |-> RegistryData(name).status,
     versions |-> [v \in RegistryData(name).versions |->
                     [tarball |-> TemplateUrl(FallbackUrlBase,
                                              [id |-> name, version |-> v]),
                      url |-> Undefined]]]

\* variant: the metadata's tarball URL is trusted for every registry
GetTarballUrl_TrustMetadata(registryUrl, data, obj) ==
    IF data.status >= 400 THEN [ok |-> FALSE, err |-> "PackageNotFound"]
    ELSE IF obj.version \notin DOMAIN data.versions
    THEN [ok |-> FALSE, err |-> "PackageNotFound"]
    ELSE LET entry == data.versions[obj.version]
             url == IF entry.tarball # Undefined THEN entry.tarball ELSE entry.url
         IN IF url = Undefined \/ url = <<>>
            THEN [ok |-> TRUE, url |-> TemplateUrl(FallbackUrlBase, obj)]
            ELSE [ok |-> TRUE, url |-> url]

\* getTarballUrl: the tarball to request, or the failure it throws
GetTarballUrl(registryUrl, data, obj) ==
    IF data.status >= 400 THEN [ok |-> FALSE, err |-> "PackageNotFound"]
    ELSE IF obj.version \notin DOMAIN data.versions
    THEN [ok |-> FALSE, err |-> "PackageNotFound"]
    ELSE IF registryUrl # DefaultRegistryUrl
    THEN [ok |-> TRUE, url |-> TemplateUrl(registryUrl, obj)]
    ELSE LET entry == data.versions[obj.version]
             url == IF entry.tarball # Undefined THEN entry.tarball ELSE entry.url
         IN IF url = Undefined \/ url = <<>>
            THEN [ok |-> TRUE, url |-> TemplateUrl(FallbackUrlBase, obj)]
            ELSE [ok |-> TRUE, url |-> url]

\* extractTarball: the staged tree of a tarball, index file written last
ExtractTarball(obj) ==
    [id |-> obj.id, version |-> obj.version,
     files |-> ArchiveFiles(obj.id, obj.version),
     deps |-> ManifestDeps(obj.id, obj.version),
     index |-> TRUE,
     tmp |-> <<>>]

\* temp.mkdirSync(): a fresh directory for each extraction of a caller
TempDir(p) == <<p, Len(attempts[p])>>

\* variant: the dependencies are returned as the manifest declares them
GetDependencies_NoRemap(tree) == tree.deps

\* getDependencies: the manifest's dependencies with the r4.core 4.0.0 remap
GetDependencies(tree) ==
    [k \in DOMAIN tree.deps |->
        IF tree.deps[k][1] = R4Core /\ tree.deps[k][2] = V400
        THEN <<R4Core, V401>>
        ELSE tree.deps[k]]

(***************************************************************************)
(* install(): one frame per invocation, the top of the stack is running    *)
(***************************************************************************)
Frame(arg) == [arg |-> arg, obj |-> None, pc |-> "resolve", deps |-> <<>>, i |-> 1]

Running(p) == pstack[p] # <<>>
Top(p) == pstack[p][Len(pstack[p])]
WithTop(p, f) == [pstack EXCEPT ![p] = [@ EXCEPT ![Len(@)] = f]]
At(p, pc) == Running(p) /\ Top(p).pc = pc

\* variant: the dependency loop catches a failed dependency and goes on
Throw_Swallowed(p, err) ==
    /\ failure' = [failure EXCEPT ![p] =
                      IF @.err = None THEN [err |-> err, at |-> Len(attempts[p])] ELSE @]
    /\ IF Len(pstack[p]) = 1
       THEN /\ pstack' = [pstack EXCEPT ![p] = <<>>]
            /\ result' = [result EXCEPT ![p] = err]
       ELSE /\ pstack' = [pstack EXCEPT ![p] =
                  LET rest == SubSeq(@, 1, Len(@) - 1)
                  IN [rest EXCEPT ![Len(rest)].i = @ + 1]]
            /\ UNCHANGED result

\* a throw inside install(): every awaiting frame rethrows, the call rejects
Throw(p, err) ==
    /\ pstack' = [pstack EXCEPT ![p] = <<>>]
    /\ result' = [result EXCEPT ![p] = err]
    /\ failure' = [failure EXCEPT ![p] =
                      IF @.err = None THEN [err |-> err, at |-> Len(attempts[p])] ELSE @]

\* a top-level install(req) call begins
Call(p) ==
    /\ ~Running(p)
    /\ budget[p] > 0
    /\ budget' = [budget EXCEPT ![p] = @ - 1]
    /\ pstack' = [pstack EXCEPT ![p] = <<Frame(req)>>]
    /\ prev' = [prev EXCEPT ![p] = result[p]]
    /\ result' = [result EXCEPT ![p] = "running"]
    /\ netLog' = [netLog EXCEPT ![p] = {}]
    /\ attempts' = [attempts EXCEPT ![p] = <<req>>]
    /\ failure' = [failure EXCEPT ![p] = NoFailure]
    /\ snap' = [snap EXCEPT ![p] = IF result[p] = None THEN None ELSE cache]
    /\ warned' = [warned EXCEPT ![p] = FALSE]
    /\ UNCHANGED <<cache, staged, req, skipExamples>>

\* install: trim, reject the empty string, toPackageObject (strings only)
InstallResolve(p) ==
    /\ At(p, "resolve")
    /\ LET arg == Top(p).arg
           r == ToPackageObject(arg)
       IN IF arg.form = "object"
          THEN /\ pstack' = WithTop(p, [Top(p) EXCEPT
                                !.obj = [id |-> arg.id, version |-> arg.version],
                                !.pc = "check"])
               /\ UNCHANGED <<netLog, result, failure>>
          ELSE /\ netLog' = [netLog EXCEPT ![p] = @ \cup r.net]
               /\ IF r.ok
                  THEN /\ pstack' = WithTop(p, [Top(p) EXCEPT !.obj = r.obj,
                                                              !.pc = "check"])
                       /\ UNCHANGED <<result, failure>>
                  ELSE Throw(p, r.err)
    /\ UNCHANGED <<cache, staged, budget, req, skipExamples, attempts, snap, prev, warned>>

\* variant: install downloads without looking at the cache
InstallCheck_AlwaysDownload(p) ==
    /\ At(p, "check")
    /\ pstack' = WithTop(p, [Top(p) EXCEPT !.pc = "download"])
    /\ UNCHANGED <<cache, staged, result, budget, req, skipExamples,
                   netLog, attempts, failure, snap, prev, warned>>

\* install: alreadyInstalled = await isInstalled(packageObject)
InstallCheck(p) ==
    /\ At(p, "check")
    /\ pstack' = WithTop(p, [Top(p) EXCEPT
                      !.pc = IF IsInstalled(Top(p).obj) THEN "index" ELSE "download"])
    /\ UNCHANGED <<cache, staged, result, budget, req, skipExamples,
                   netLog, attempts, failure, snap, prev, warned>>

\* downloadAndExtractTarball: metadata, tarball stream, extraction to a temp dir
DownloadAndExtractTarball(p) ==
    /\ At(p, "download")
    /\ LET obj == Top(p).obj
           url == GetTarballUrl(DefaultRegistryUrl, PackageData(obj.id), obj)
       IN IF url.ok
          THEN /\ netLog' = [netLog EXCEPT ![p] =
                                @ \cup {<<"meta", obj.id>>, <<"tarball", url.url>>}]
               /\ staged' = [staged EXCEPT ![p] =
                                [ExtractTarball(obj) EXCEPT !.tmp = TempDir(p)]]
               /\ pstack' = WithTop(p, [Top(p) EXCEPT !.pc = "cache"])
               /\ UNCHANGED <<result, failure>>
          ELSE /\ netLog' = [netLog EXCEPT ![p] = @ \cup {<<"meta", obj.id>>}]
               /\ Throw(p, url.err)
               /\ UNCHANGED staged
    /\ UNCHANGED <<cache, budget, req, skipExamples, attempts, snap, prev, warned>>

\* cachePackage: isInstalled is read before the move is tried
CachePackageCheck(p) ==
    /\ At(p, "cache")
    /\ pstack' = WithTop(p, [Top(p) EXCEPT
                      !.pc = IF IsInstalled(Top(p).obj) THEN "index" ELSE "move"])
    /\ UNCHANGED <<cache, staged, result, budget, req, skipExamples,
                   netLog, attempts, failure, snap, prev, warned>>

\* variant: the failed move is not caught
CachePackageMove_NoCatch(p) ==
    /\ At(p, "move")
    /\ LET dir == ToDirName(Top(p).obj)
       IN IF dir \in DOMAIN cache
          THEN /\ Throw(p, "DestExists")
               /\ UNCHANGED <<cache, staged>>
          ELSE /\ cache' = [d \in DOMAIN cache \cup {dir} |->
                               IF d = dir THEN staged[p] ELSE cache[d]]
               /\ staged' = [staged EXCEPT ![p] = None]
               /\ pstack' = WithTop(p, [Top(p) EXCEPT !.pc = "index"])
               /\ UNCHANGED <<result, failure>>
    /\ UNCHANGED <<budget, req, skipExamples, netLog, attempts, snap, prev, warned>>

\* variant: the move replaces a directory that is already there
CachePackageMove_Overwrite(p) ==
    /\ At(p, "move")
    /\ LET dir == ToDirName(Top(p).obj)
       IN /\ cache' = [d \in DOMAIN cache \cup {dir} |->
                          IF d = dir THEN staged[p] ELSE cache[d]]
          /\ staged' = [staged EXCEPT ![p] = None]
          /\ UNCHANGED warned
    /\ pstack' = WithTop(p, [Top(p) EXCEPT !.pc = "index"])
    /\ UNCHANGED <<result, budget, req, skipExamples, netLog, attempts,
                   failure, snap, prev>>

\* cachePackage: fs.move(src, finalPath, {overwrite: false}) inside try/catch;
\* the move throws when the destination exists and the catch returns finalPath
CachePackageMove(p) ==
    /\ At(p, "move")
    /\ LET dir == ToDirName(Top(p).obj)
       IN IF dir \in DOMAIN cache
          THEN /\ warned' = [warned EXCEPT ![p] = TRUE]
               /\ UNCHANGED <<cache, staged>>
          ELSE /\ cache' = [d \in DOMAIN cache \cup {dir} |->
                               IF d = dir THEN staged[p] ELSE cache[d]]
               /\ staged' = [staged EXCEPT ![p] = None]
               /\ UNCHANGED warned
    /\ pstack' = WithTop(p, [Top(p) EXCEPT !.pc = "index"])
    /\ UNCHANGED <<result, budget, req, skipExamples, netLog, attempts,
                   failure, snap, prev>>

\* installPackageDependencies: getPackageIndexFile reads the index file, or
\* regenerates and writes it when the file is missing
GetPackageIndexFile(p) ==
    /\ At(p, "index")
    /\ LET dir == ToDirName(Top(p).obj)
       IN IF dir \notin DOMAIN cache
          THEN /\ Throw(p, "ENOENT")
               /\ UNCHANGED cache
          ELSE /\ cache' = [cache EXCEPT ![dir].index = TRUE]
               /\ pstack' = WithTop(p, [Top(p) EXCEPT !.pc = "deps"])
               /\ UNCHANGED <<result, failure>>
    /\ UNCHANGED <<staged, budget, req, skipExamples, netLog, attempts, snap, prev, warned>>

\* installPackageDependencies: deps = await getDependencies(packageObject)
ReadDependencies(p) ==
    /\ At(p, "deps")
    /\ LET dir == ToDirName(Top(p).obj)
       IN IF dir \notin DOMAIN cache \/ "package.json" \notin cache[dir].files
          THEN Throw(p, "ENOENT")
          ELSE /\ pstack' = WithTop(p, [Top(p) EXCEPT
                                !.deps = GetDependencies(cache[dir]),
                                !.i = 1, !.pc = "loop"])
               /\ UNCHANGED <<result, failure>>
    /\ UNCHANGED <<cache, staged, budget, req, skipExamples, netLog, attempts,
                   snap, prev, warned>>

\* variant: example packages are skipped whatever skipExamples says
InstallNextDependency_SkipAlways(p) ==
    /\ At(p, "loop")
    /\ Top(p).i <= Len(Top(p).deps)
    /\ LET dep == Top(p).deps[Top(p).i]
           arg == StrArg(dep[1] \o <<"@">> \o dep[2])
       IN IF Includes(dep[1], "examples")
          THEN /\ pstack' = WithTop(p, [Top(p) EXCEPT !.i = @ + 1])
               /\ UNCHANGED attempts
          ELSE /\ pstack' = [pstack EXCEPT ![p] = Append(@, Frame(arg))]
               /\ attempts' = [attempts EXCEPT ![p] = Append(@, arg)]
    /\ UNCHANGED <<cache, staged, result, budget, req, skipExamples, netLog,
                   failure, snap, prev, warned>>

\* variant: skipExamples is not consulted
InstallNextDependency_SkipNever(p) ==
    /\ At(p, "loop")
    /\ Top(p).i <= Len(Top(p).deps)
    /\ LET dep == Top(p).deps[Top(p).i]
           arg == StrArg(dep[1] \o <<"@">> \o dep[2])
       IN /\ pstack' = [pstack EXCEPT ![p] = Append(@, Frame(arg))]
          /\ attempts' = [attempts EXCEPT ![p] = Append(@, arg)]
    /\ UNCHANGED <<cache, staged, result, budget, req, skipExamples, netLog,
                   failure, snap, prev, warned>>

\* variant: the install of the dependency is started and not awaited
InstallNextDependency_NoAwait(p) ==
    /\ At(p, "loop")
    /\ Top(p).i <= Len(Top(p).deps)
    /\ LET dep == Top(p).deps[Top(p).i]
           arg == StrArg(dep[1] \o <<"@">> \o dep[2])
       IN IF skipExamples /\ Includes(dep[1], "examples")
          THEN /\ pstack' = WithTop(p, [Top(p) EXCEPT !.i = @ + 1])
               /\ UNCHANGED attempts
          ELSE /\ pstack' = [pstack EXCEPT ![p] =
                                Append([@ EXCEPT ![Len(@)].i = @ + 1], Frame(arg))]
               /\ attempts' = [attempts EXCEPT ![p] = Append(@, arg)]
    /\ UNCHANGED <<cache, staged, result, budget, req, skipExamples, netLog,
                   failure, snap, prev, warned>>

\* installPackageDependencies: one turn of  for (const dep in deps)
InstallNextDependency(p) ==
    /\ At(p, "loop")
    /\ Top(p).i <= Len(Top(p).deps)
    /\ LET dep == Top(p).deps[Top(p).i]
           arg == StrArg(dep[1] \o <<"@">> \o dep[2])
       IN IF skipExamples /\ Includes(dep[1], "examples")
          THEN /\ pstack' = WithTop(p, [Top(p) EXCEPT !.i = @ + 1])
               /\ UNCHANGED attempts
          ELSE /\ pstack' = [pstack EXCEPT ![p] = Append(@, Frame(arg))]
               /\ attempts' = [attempts EXCEPT ![p] = Append(@, arg)]
    /\ UNCHANGED <<cache, staged, result, budget, req, skipExamples, netLog,
                   failure, snap, prev, warned>>

\* install: return true, to the awaiting dependency loop or to the caller
InstallReturn(p) ==
    /\ At(p, "loop")
    /\ Top(p).i > Len(Top(p).deps)
    /\ IF Len(pstack[p]) = 1
       THEN /\ pstack' = [pstack EXCEPT ![p] = <<>>]
            /\ result' = [result EXCEPT ![p] = "true"]
       ELSE /\ pstack' = [pstack EXCEPT ![p] =
                  LET rest == SubSeq(@, 1, Len(@) - 1)
                  IN [rest EXCEPT ![Len(rest)].i = @ + 1]]
            /\ UNCHANGED result
    /\ UNCHANGED <<cache, staged, budget, req, skipExamples, netLog, attempts,
                   failure, snap, prev, warned>>

(***************************************************************************)
(* The registry client: URLs, and what the network answers                 *)
(***************************************************************************)
StartsWith(s, prefix) ==
    Len(s) >= Len(prefix) /\ SubSeq(s, 1, Len(prefix)) = prefix

\* new URL(url).protocol: the URL parser lowercases the scheme
Protocol(url) ==
    CASE url[1] = "HTTP:"  -> "http:"
      [] url[1] = "HTTPS:" -> "https:"
      [] OTHER             -> url[1]

\* new URL(url).hostname: what lies between '//' and the path
Hostname(url) ==
    LET rest == SubSeq(url, 3, Len(url))
        stop == IF \E k \in DOMAIN rest : rest[k] = "/"
                THEN CHOOSE k \in DOMAIN rest :
                         rest[k] = "/" /\ \A j \in 1..(k - 1) : rest[j] # "/"
                ELSE Len(rest) + 1
    IN SubSeq(rest, 1, stop - 1)

\* FpiConfig.registryUrl
RegistryUrl == <<"https:", "//", "reg.org">>

OnRegistry(path) == RegistryUrl \o path

Digits == <<"0", "1", "2", "3", "4", "5", "6", "7", "8", "9">>

\* the head of a chain of k redirects
Hop(k) == OnRegistry(<<"/", "hop", "/", Digits[k + 1]>>)

MetaUrl == OnRegistry(<<"/", "pkg", "/">>)
SecretUrl == OnRegistry(<<"/", "secret", "/">>)
CdnUrl == <<"https:", "//", "cdn.net", "/", "pkg.tgz">>
EvilUrl == <<"https:", "//", "reg.org", ".evil.com", "/", "pkg.tgz">>
PlainUrl == <<"http:", "//", "reg.org", "/", "pkg", "/">>
UpperUrl == <<"HTTP:", "//", "cdn.net", "/", "pkg.tgz">>
DownUrl == <<"https:", "//", "down.net", "/", "pkg.tgz">>
RefusedUrl == <<"https:", "//", "refused.net", "/", "pkg.tgz">>

Response(status, location, body) ==
    [kind |-> "response", status |-> status, location |-> location,
     body |-> body, code |-> None]

NetError(code) ==
    [kind |-> "error", status |-> 0, location |-> <<>>, body |-> None,
     code |-> code]

\* FpiConfig.registryToken: unset, the token the registry accepts, another one
Tokens == {None, "valid", "invalid"}

\* a token-protected path: 401 without a Bearer header, 403 for a token
\* that is not the valid one
Protected(request) ==
    IF ~request.auth THEN Response(401, <<>>, "Unauthorized")
    ELSE IF fcfg.token # "valid" THEN Response(403, <<>>, "Forbidden")
    ELSE Response(200, <<>>, "json")

\* the answers a GET of url can meet
Respond(url) ==
    CASE \E k \in 1..MaxChain : url = Hop(k) ->
            {Response(302, Hop((CHOOSE k \in 1..MaxChain : url = Hop(k)) - 1), "moved")}
      [] url = Hop(0) -> {Response(200, <<>>, "json")}
      [] url = MetaUrl -> {Response(200, <<>>, "json")}
      [] url = SecretUrl -> {Protected(sent[Len(sent)])}
      [] url = OnRegistry(<<"/", "s401">>) -> {Response(401, <<>>, "Unauthorized")}
      [] url = OnRegistry(<<"/", "s403">>) -> {Response(403, <<>>, "Forbidden")}
      [] url = OnRegistry(<<"/", "s404">>) -> {Response(404, <<>>, "Not found")}
      [] url = OnRegistry(<<"/", "s500">>) -> {Response(500, <<>>, "Internal server error")}
      [] url = OnRegistry(<<"/", "html">>) -> {Response(200, <<>>, "html")}
      [] url = OnRegistry(<<"/", "noloc">>) -> {Response(302, <<>>, "html")}
      [] url = OnRegistry(<<"/", "flaky">>) ->
            {NetError("ECONNRESET"), NetError("EAI_AGAIN"),
             Response(200, <<>>, "json"), Response(503, <<>>, "Unavailable")}
      [] url = OnRegistry(<<"/", "tocdn">>) -> {Response(302, CdnUrl, "moved")}
      [] url = OnRegistry(<<"/", "toevil">>) -> {Response(307, EvilUrl, "moved")}
      [] url = OnRegistry(<<"/", "toplain">>) -> {Response(301, PlainUrl, "moved")}
      [] url = OnRegistry(<<"/", "toupper">>) -> {Response(302, UpperUrl, "moved")}
      [] url = OnRegistry(<<"/", "todown">>) -> {Response(302, DownUrl, "moved")}
      [] url = DownUrl -> {NetError("ENOTFOUND")}
      [] url = RefusedUrl -> {NetError("ECONNREFUSED")}
      [] OTHER -> {Response(200, <<>>, "json")}

\* the URLs a fetch is started with
StartUrls ==
    {Hop(k) : k \in 0..MaxChain} \cup
    {OnRegistry(<<"/", x>>) : x \in {"s401", "s403", "s404", "s500", "html", "noloc",
                                     "flaky", "tocdn", "toevil", "toplain",
                                     "toupper", "todown"}} \cup
    {MetaUrl, SecretUrl, CdnUrl, PlainUrl, DownUrl, RefusedUrl}

(***************************************************************************)
(* The registry client: fetchJson / fetchStream inside withRetries         *)
(***************************************************************************)
NoError == [kind |-> None, code |-> None, status |-> 0, body |-> None]

Failure(kind, code, status, body) ==
    [kind |-> kind, code |-> code, status |-> status, body |-> body]

\* one fetchJson(url, redirectCount) / fetchStream(url, redirectCount) invocation
Level(url, count) ==
    [url |-> url, count |-> count, attempt |-> 1, pc |-> "try",
     err |-> NoError, delay |-> 0, retriedOn |-> None]

FTop == fstack[Len(fstack)]
FWithTop(l) == [fstack EXCEPT ![Len(fstack)] = l]
FAt(pc) == fstack # <<>> /\ FTop.pc = pc

\* variant: no request carries the token
GetHttpOptions_NoHeader(url) == FALSE

\* getHttpOptions: whether the request carries Authorization: Bearer <token>
GetHttpOptions(url) ==
    /\ fcfg.token # None
    /\ \/ StartsWith(url, RegistryUrl)
       \/ Hostname(url) = Hostname(RegistryUrl)

\* withRetries: isTemporary
IsTemporary(code) == code \in {"EAI_AGAIN", "ENOTFOUND", "ECONNRESET"}

\* variant: the redirect limit is tested with > instead of >=
TooManyRedirects_OffByOne(count) == count > MaxRedirects

\* fetchJson / fetchStream: redirectCount >= maxRedirects
TooManyRedirects(count) == count >= MaxRedirects

\* fetchJson: what a response that is not a followed redirect settles to
JsonSettle(o) ==
    IF o.status >= 400
    THEN [ok |-> FALSE,
          err |-> Failure(JsonStatusError(o.status), None, o.status,
                          IF o.status \in {401, 403} THEN None ELSE o.body)]
    ELSE IF o.body = "json" THEN [ok |-> TRUE, err |-> NoError]
    ELSE [ok |-> FALSE, err |-> Failure("JsonParseError", None, o.status, None)]

\* fetchStream: what a response that is not a followed redirect settles to
StreamSettle(o) ==
    IF o.status = 200 THEN [ok |-> TRUE, err |-> NoError]
    ELSE [ok |-> FALSE, err |-> Failure("FetchFailed", None, o.status, None)]

\* a fetchJson(url) or fetchStream(url) call begins
FetchCall ==
    /\ fresult.state = "idle"
    /\ fstack' = <<Level(fcfg.url, 0)>>
    /\ fresult' = [fresult EXCEPT !.state = "pending"]
    /\ UNCHANGED <<fcfg, sent, hopLog, lastStatus, tmrAt>>

\* the function withRetries runs: options, the http check, client.get
FetchAttempt ==
    /\ FAt("try")
    /\ LET url == FTop.url
           isHttps == StartsWith(url, <<"https:">>)
           isHttp == StartsWith(url, <<"http:">>)
       IN IF isHttp /\ ~fcfg.allowHttp
          THEN /\ fstack' = FWithTop([FTop EXCEPT !.pc = "rejected",
                                 !.err = Failure("HttpNotAllowed", None, 0, None)])
               /\ UNCHANGED sent
          ELSE IF ~isHttps /\ Protocol(url) # "http:"
          THEN /\ fstack' = FWithTop([FTop EXCEPT !.pc = "rejected",
                                 !.err = Failure("InvalidProtocol",
                                                 "ERR_INVALID_PROTOCOL", 0, None)])
               /\ UNCHANGED sent
          ELSE /\ sent' = Append(sent, [url |-> url,
                                        auth |-> GetHttpOptions(url),
                                        tls |-> isHttps,
                                        hop |-> FTop.count])
               /\ fstack' = FWithTop([FTop EXCEPT !.pc = "wait"])
    /\ UNCHANGED <<fcfg, fresult, hopLog, lastStatus, tmrAt>>

\* the response callback, or the request's 'error' event
FetchRespond ==
    /\ FAt("wait")
    /\ \E o \in Respond(FTop.url) :
          IF o.kind = "error"
          THEN /\ fstack' = FWithTop([FTop EXCEPT !.pc = "rejected",
                                 !.err = Failure("NetworkError", o.code, 0, None)])
               /\ UNCHANGED <<hopLog, lastStatus, tmrAt>>
          ELSE /\ lastStatus' = o.status
               /\ IF o.status >= 300 /\ o.status < 400 /\ o.location # <<>>
                  THEN IF TooManyRedirects(FTop.count)
                       THEN /\ fstack' = FWithTop([FTop EXCEPT !.pc = "rejected",
                                   !.err = Failure("TooManyRedirects", None, 0, None)])
                            /\ tmrAt' = Len(sent)
                            /\ UNCHANGED hopLog
                       ELSE /\ hopLog' = hopLog \cup {<<FTop.url, o.location>>}
                            /\ fstack' = Append(FWithTop([FTop EXCEPT !.pc = "await"]),
                                                Level(o.location, FTop.count + 1))
                            /\ UNCHANGED tmrAt
                  ELSE LET r == IF fcfg.op = "json" THEN JsonSettle(o)
                                ELSE StreamSettle(o)
                       IN /\ fstack' = FWithTop([FTop EXCEPT
                                 !.pc = IF r.ok THEN "resolved" ELSE "rejected",
                                 !.err = r.err])
                          /\ UNCHANGED <<hopLog, tmrAt>>
    /\ UNCHANGED <<fcfg, fresult, sent>>

\* variant: every failure is retried
WithRetriesCatch_RetryAll ==
    /\ FAt("rejected")
    /\ IF FTop.attempt = Retries
       THEN IF Len(fstack) = 1
            THEN /\ fstack' = <<>>
                 /\ fresult' = [state |-> "rejected", err |-> FTop.err]
            ELSE /\ fstack' = [SubSeq(fstack, 1, Len(fstack) - 1) EXCEPT
                                  ![Len(fstack) - 1].pc = "rejected",
                                  ![Len(fstack) - 1].err = FTop.err]
                 /\ UNCHANGED fresult
       ELSE /\ fstack' = FWithTop([FTop EXCEPT !.pc = "sleep", !.delay = DelayMs,
                                               !.retriedOn = FTop.err.code])
            /\ UNCHANGED fresult
    /\ UNCHANGED <<fcfg, sent, hopLog, lastStatus, tmrAt>>

\* withRetries: catch (err): throw unless the error is temporary and attempts
\* remain; a throw rejects the caller's await, or the attempt that followed
\* the redirect to this invocation
WithRetriesCatch ==
    /\ FAt("rejected")
    /\ IF ~IsTemporary(FTop.err.code) \/ FTop.attempt = Retries
       THEN IF Len(fstack) = 1
            THEN /\ fstack' = <<>>
                 /\ fresult' = [state |-> "rejected", err |-> FTop.err]
            ELSE /\ fstack' = [SubSeq(fstack, 1, Len(fstack) - 1) EXCEPT
                                  ![Len(fstack) - 1].pc = "rejected",
                                  ![Len(fstack) - 1].err = FTop.err]
                 /\ UNCHANGED fresult
       ELSE /\ fstack' = FWithTop([FTop EXCEPT !.pc = "sleep", !.delay = DelayMs,
                                               !.retriedOn = FTop.err.code])
            /\ UNCHANGED fresult
    /\ UNCHANGED <<fcfg, sent, hopLog, lastStatus, tmrAt>>

\* withRetries: the delay has passed, the next attempt runs
WithRetriesSleep ==
    /\ FAt("sleep")
    /\ fstack' = FWithTop([FTop EXCEPT !.pc = "try", !.attempt = @ + 1,
                                       !.err = NoError])
    /\ UNCHANGED <<fcfg, fresult, sent, hopLog, lastStatus, tmrAt>>

\* withRetries: return await fn(); the value resolves whoever awaits it
WithRetriesReturn ==
    /\ FAt("resolved")
    /\ IF Len(fstack) = 1
       THEN /\ fstack' = <<>>
            /\ fresult' = [state |-> "resolved", err |-> NoError]
       ELSE /\ fstack' = [SubSeq(fstack, 1, Len(fstack) - 1) EXCEPT
                             ![Len(fstack) - 1].pc = "resolved"]
            /\ UNCHANGED fresult
    /\ UNCHANGED <<fcfg, sent, hopLog, lastStatus, tmrAt>>

(***************************************************************************)
(* Specifications                                                          *)
(***************************************************************************)
InitCommon ==
    /\ cache = << >>
    /\ pstack = [p \in Procs |-> <<>>]
    /\ staged = [p \in Procs |-> None]
    /\ result = [p \in Procs |-> None]
    /\ netLog = [p \in Procs |-> {}]
    /\ attempts = [p \in Procs |-> <<>>]
    /\ failure = [p \in Procs |-> NoFailure]
    /\ snap = [p \in Procs |-> None]
    /\ prev = [p \in Procs |-> None]
    /\ warned = [p \in Procs |-> FALSE]

\* no function call is modelled
PureIdle == pure = [fn |-> None, done |-> TRUE]

\* what getPackageIndexFile gave: nothing yet, a PackageIndex, or a throw;
\* gen tells that generatePackageIndex made it
NoIndex == [set |-> FALSE, ok |-> FALSE, gen |-> FALSE, files |-> <<>>]

\* no package index is modelled
IxIdle ==
    ix = [pc |-> "idle", archive |-> {}, dir |-> <<>>,
          index |-> [exists |-> FALSE, files |-> <<>>],
          first |-> NoIndex, ret |-> NoIndex]

\* no call of a public operation is modelled
NoCall == [op |-> None, arg |-> <<>>, opt |-> <<>>, ok |-> TRUE, val |-> <<>>]

OpsIdle == ops = [n |-> 0, call |-> NoCall, before |-> << >>, dest |-> << >>,
                  destBefore |-> << >>, gone |-> {}, made |-> {}]

\* the work of one process: one extraction and one index generation
Jobs == {"extract", "generate"}

\* the work items: one for each entry of the archive, one for each file of
\* the package folder
Items == ({"extract"} \X (1..NEntries)) \cup ({"generate"} \X (1..NFiles))

NoFault == [kind |-> None, item |-> 0, via |-> None]

\* nothing was submitted
NoWork ==
    [pc |-> [j \in Jobs |-> "idle"],
     emitted |-> 0,
     st |-> [it \in Items |-> "none"],
     queue |-> <<>>,
     faults |-> [j \in Jobs |-> <<>>],
     err |-> [j \in Jobs |-> NoFault],
     indexFile |-> [j \in Jobs |-> [written |-> FALSE, files |-> {}]]]

\* no extraction is modelled
ExIdle == ex = NoWork

\* the files of the package, the manifest among them
PackageFiles == {"package.json", "StructureDefinition-a.json"}

\* a file that is not there
Absent == "absent"

\* the cache directory of the package does not exist
NoEntry == [dir |-> FALSE, files |-> [f \in PackageFiles |-> Absent], index |-> None]

\* the three concurrent calls
Callers == {"installLocalPackage", "install", "getPackageIndexFile"}

\* a call that has not begun; pc is its position, cached tells that its
\* cachePackage returned a path, dirAtReturn that the directory existed
\* then, err is what its move or copy threw, copied the files its copy has
\* dealt with, saw what it read, out how it ended
NotBegun ==
    [pc |-> "start", cached |-> FALSE, dirAtReturn |-> FALSE, warned |-> FALSE,
     err |-> None, copied |-> {}, saw |-> None, out |-> None]

\* no file-by-file entry is modelled
LocIdle ==
    loc = [entry |-> NoEntry, override |-> FALSE, isDirectory |-> FALSE,
           c |-> [k \in Callers |-> [NotBegun EXCEPT !.pc = "done"]]]

\* no fetch is modelled
FetchIdle ==
    /\ fcfg = [op |-> "json", url |-> MetaUrl, token |-> None, allowHttp |-> FALSE]
    /\ fstack = <<>>
    /\ fresult = [state |-> "done", err |-> NoError]
    /\ sent = <<>>
    /\ hopLog = {}
    /\ lastStatus = 0
    /\ tmrAt = 0

\* concurrent callers, one install(req) each
Init ==
    /\ InitCommon
    /\ OpsIdle
    /\ ExIdle
    /\ LocIdle
    /\ FetchIdle
    /\ PureIdle
    /\ IxIdle
    /\ req \in ConcurrentRequests
    /\ skipExamples = FALSE
    /\ budget = [p \in Procs |-> 1]

\* one caller, install(req) called MaxCalls times in sequence
InitSeq ==
    /\ InitCommon
    /\ OpsIdle
    /\ ExIdle
    /\ LocIdle
    /\ FetchIdle
    /\ PureIdle
    /\ IxIdle
    /\ req \in Requests
    /\ skipExamples \in BOOLEAN
    /\ budget = [p \in Procs |-> IF p = 1 THEN MaxCalls ELSE 0]

\* one fetch by an installer configured with registryUrl = RegistryUrl
InitFetch ==
    /\ InitCommon
    /\ OpsIdle
    /\ ExIdle
    /\ LocIdle
    /\ PureIdle
    /\ IxIdle
    /\ req = StrArg(Lib)
    /\ skipExamples = FALSE
    /\ budget = [p \in Procs |-> 0]
    /\ fcfg \in [op : {"json", "stream"}, url : StartUrls,
                 token : Tokens, allowHttp : BOOLEAN]
    /\ fstack = <<>>
    /\ fresult = [state |-> "idle", err |-> NoError]
    /\ sent = <<>>
    /\ hopLog = {}
    /\ lastStatus = 0
    /\ tmrAt = 0

Next ==
    /\ \E p \in Procs :
          \/ Call(p)
          \/ InstallResolve(p)
          \/ InstallCheck(p)
          \/ DownloadAndExtractTarball(p)
          \/ CachePackageCheck(p)
          \/ CachePackageMove(p)
          \/ GetPackageIndexFile(p)
          \/ ReadDependencies(p)
          \/ InstallNextDependency(p)
          \/ InstallReturn(p)
    /\ UNCHANGED <<fetchVars, pure, ix, ops, ex, loc>>

\* the dependency graph has a cycle, ring-a and ring-b, whose packages are in
\* the cache; install is called for one of them, for a package that depends
\* on one, or for a package away from the cycle
CycleRequests ==
    { StrArg(RingA \o <<"@">> \o V100),
      StrArg(OnRing \o <<"@">> \o V100),
      StrArg(App \o <<"@">> \o V100) }

InitCycle ==
    /\ cache = [dir \in {ToDirName([id |-> RingA, version |-> V100]),
                         ToDirName([id |-> RingB, version |-> V100])} |->
                   IF dir = ToDirName([id |-> RingA, version |-> V100])
                   THEN ExtractTarball([id |-> RingA, version |-> V100])
                   ELSE ExtractTarball([id |-> RingB, version |-> V100])]
    /\ pstack = [p \in Procs |-> <<>>]
    /\ staged = [p \in Procs |-> None]
    /\ result = [p \in Procs |-> None]
    /\ netLog = [p \in Procs |-> {}]
    /\ attempts = [p \in Procs |-> <<>>]
    /\ failure = [p \in Procs |-> NoFailure]
    /\ snap = [p \in Procs |-> None]
    /\ prev = [p \in Procs |-> None]
    /\ warned = [p \in Procs |-> FALSE]
    /\ OpsIdle
    /\ ExIdle
    /\ LocIdle
    /\ FetchIdle
    /\ PureIdle
    /\ IxIdle
    /\ req \in CycleRequests
    /\ skipExamples \in BOOLEAN
    /\ budget = [p \in Procs |-> IF p = 1 THEN 1 ELSE 0]

\* the steps of install, the chain of invocations cut off at MaxDepth
NextCycle ==
    /\ \E p \in Procs :
          \/ Call(p)
          \/ InstallResolve(p)
          \/ InstallCheck(p)
          \/ DownloadAndExtractTarball(p)
          \/ CachePackageCheck(p)
          \/ CachePackageMove(p)
          \/ GetPackageIndexFile(p)
          \/ ReadDependencies(p)
          \/ (Len(pstack[p]) < MaxDepth /\ InstallNextDependency(p))
          \/ InstallReturn(p)
    /\ UNCHANGED <<fetchVars, pure, ix, ops, ex, loc>>

NextFetch ==
    /\ \/ FetchCall
       \/ FetchAttempt
       \/ FetchRespond
       \/ WithRetriesCatch
       \/ WithRetriesSleep
       \/ WithRetriesReturn
    /\ UNCHANGED <<installVars, pure, ix, ops, ex, loc>>

(***************************************************************************)
(* The package index: shallowParse, extractResourceIndexEntry, the index   *)
(* written by extractTarball and the one made by generatePackageIndex      *)
(***************************************************************************)
EndsWith(s, suffix) ==
    Len(s) >= Len(suffix) /\ SubSeq(s, Len(s) - Len(suffix) + 1, Len(s)) = suffix

\* a JSON value by its kind; undefined is what a missing property reads as
JString(v) == [t |-> "string", v |-> v]
JNumber == [t |-> "number", v |-> "3"]
JNull == [t |-> "null", v |-> "null"]
JObject == [t |-> "object", v |-> "{..}"]
JArray == [t |-> "array", v |-> "[..]"]
JUndefined == [t |-> "undefined", v |-> None]

\* the text of a file: whether it is a JSON object, and its members
JsonObject(members) == [object |-> TRUE, members |-> members]
NotJsonObject == [object |-> FALSE, members |-> <<>>]

\* shallowParse: top-level primitive members only (strings, numbers,
\* booleans, null); nested objects and arrays are skipped; throws unless the
\* text is wrapped in braces
ShallowParse(text) ==
    IF ~text.object THEN [ok |-> FALSE, value |-> <<>>]
    ELSE [ok |-> TRUE,
          value |-> [k \in {k \in DOMAIN text.members :
                               text.members[k].t \notin {"object", "array"}} |->
                        text.members[k]]]

\* the properties of an index entry that go through evalAttribute
EvalFields == {"url", "name", "version", "kind", "type", "supplements",
               "content", "baseDefinition", "derivation", "date"}

EntryFields == {"filename", "resourceType", "id"} \cup EvalFields

\* evalAttribute: typeof att === 'string' ? att : undefined
EvalAttribute(att) == IF att.t = "string" THEN att ELSE JUndefined

\* extractResourceIndexEntry
ExtractResourceIndexEntry(filename, content) ==
    LET get(k) == IF k \in DOMAIN content THEN content[k] ELSE JUndefined
    IN [k \in EntryFields |->
           CASE k = "filename" -> JString(filename)
             [] k \in {"resourceType", "id"} -> get(k)
             [] OTHER -> EvalAttribute(get(k))]

\* fs.writeJSON then fs.readJSON of an entry: properties that are undefined
\* are not written
ToJson(entry) ==
    [k \in {k \in DOMAIN entry : entry[k].t # "undefined"} |-> entry[k]]

\* variant: every .json file is taken
Qualifies_AnyJson(file) == EndsWith(file, <<".json">>)

\* the selection rule of extractTarball and generatePackageIndex
Qualifies(file) ==
    /\ EndsWith(file, <<".json">>)
    /\ file # <<"package", ".json">>
    /\ ~EndsWith(file, <<".index", ".json">>)

\* path.join(tempDirectory, header.name): the folder a tar entry lands in
Normalize(folder) == IF folder = "./package" THEN "package" ELSE folder

\* file contents
FullResource ==
    JsonObject([k \in {"resourceType", "id", "url", "name", "version", "kind",
                       "type", "baseDefinition", "derivation", "date"} |->
                   JString(k)])
MixedResource ==
    JsonObject([k \in {"resourceType", "id", "url", "name", "version", "kind"} |->
                   CASE k = "url" -> JObject
                     [] k = "name" -> JArray
                     [] k = "version" -> JNumber
                     [] OTHER -> JString(k)])
NullIdResource ==
    JsonObject([k \in {"resourceType", "id", "url"} |->
                   IF k = "id" THEN JNull ELSE JString(k)])
ManifestText == JsonObject([k \in {"name", "version"} |-> JString(k)])

FileA == <<"a", ".json">>
FileB == <<"b", ".json">>
FileC == <<"c", ".json">>

\* a tarball: its entries, each a file with the folder and the name its
\* header gives
Entry(folder, file, text) == [folder |-> folder, file |-> file, text |-> text]

Archive(root, aText, hasB, hasSub) ==
    {Entry(root, <<"package", ".json">>, ManifestText),
     Entry(root, <<".index", ".json">>, JsonObject(<<>>)),
     Entry(root, <<"notes", ".txt">>, NotJsonObject),
     Entry(root, FileA, aText)}
    \cup (IF hasB THEN {Entry(root, FileB, FullResource)} ELSE {})
    \cup (IF hasSub THEN {Entry("package/sub", FileC, FullResource)} ELSE {})

Archives ==
    {Archive(root, aText, hasB, hasSub) :
        root \in {"package", "./package"},
        aText \in {FullResource, MixedResource, NullIdResource, NotJsonObject},
        hasB \in BOOLEAN, hasSub \in BOOLEAN}

\* the arrangements of a finite set in a row
Orders(S) ==
    {f \in [1..Cardinality(S) -> S] : \A i, j \in 1..Cardinality(S) : f[i] = f[j] => i = j}

\* extractTarball: the entries that get an index entry: files whose header
\* folder is 'package', of a qualifying name, that shallowParse accepts
Indexed(archive) ==
    {e \in archive : /\ e.folder = "package"
                     /\ Qualifies(e.file)
                     /\ ShallowParse(e.text).ok}

\* the files directly under package/ of a directory, as fs.readdir lists them
FileOrder == << <<".index", ".json">>, FileA, FileB, FileC,
                <<"notes", ".txt">>, <<"package", ".json">> >>

\* generatePackageIndex: the files it reads
Scanned(dir) ==
    SelectSeq(FileOrder, LAMBDA f : <<"package", f>> \in DOMAIN dir /\ Qualifies(f))

\* generatePackageIndex: the index it builds, unless shallowParse throws on
\* one of the files
GeneratePackageIndex(dir) ==
    LET names == Scanned(dir)
    IN IF \E i \in DOMAIN names : ~ShallowParse(dir[<<"package", names[i]>>]).ok
       THEN [set |-> TRUE, ok |-> FALSE, gen |-> TRUE, files |-> <<>>]
       ELSE [set |-> TRUE, ok |-> TRUE, gen |-> TRUE,
             files |-> [i \in DOMAIN names |->
                          ExtractResourceIndexEntry(
                             names[i],
                             ShallowParse(dir[<<"package", names[i]>>]).value)]]

\* install of the tarball: extractTarball writes every entry below the temp
\* directory, collects the index entries in the order the write tasks end,
\* writes .fpi.index.json; cachePackage moves the directory into the cache
InstallArchive ==
    /\ ix.pc = "start"
    /\ \E order \in Orders(Indexed(ix.archive)) :
          ix' = [ix EXCEPT
             !.pc = "installed",
             !.dir = [path \in {<<Normalize(e.folder), e.file>> : e \in ix.archive} |->
                         (CHOOSE e \in ix.archive :
                             <<Normalize(e.folder), e.file>> = path).text],
             !.index = [exists |-> TRUE,
                        files |-> [i \in DOMAIN order |->
                                     ToJson(ExtractResourceIndexEntry(
                                               order[i].file,
                                               ShallowParse(order[i].text).value))]]]

\* getPackageIndexFile: readJSON when the index file exists, otherwise
\* generatePackageIndex, which writes the file before it returns
GetPackageIndexFileCall ==
    /\ ix.pc \in {"installed", "deleted", "got"}
    /\ LET r == IF ix.index.exists
                THEN [set |-> TRUE, ok |-> TRUE, gen |-> FALSE, files |-> ix.index.files]
                ELSE GeneratePackageIndex(ix.dir)
       IN ix' = [ix EXCEPT
             !.pc = "got",
             !.ret = r,
             !.first = IF ix.first.set THEN @ ELSE r,
             !.index = IF r.gen /\ r.ok
                       THEN [exists |-> TRUE,
                             files |-> [i \in DOMAIN r.files |-> ToJson(r.files[i])]]
                       ELSE @]

\* the index file is deleted from the package directory
DeleteIndexFile ==
    /\ ix.pc = "got"
    /\ ix.index.exists
    /\ ix' = [ix EXCEPT !.pc = "deleted",
                        !.index = [exists |-> FALSE, files |-> <<>>]]

InitIndex ==
    /\ InitCommon
    /\ OpsIdle
    /\ ExIdle
    /\ LocIdle
    /\ FetchIdle
    /\ PureIdle
    /\ req = StrArg(Lib)
    /\ skipExamples = FALSE
    /\ budget = [p \in Procs |-> 0]
    /\ ix \in {[pc |-> "start", archive |-> a, dir |-> <<>>,
                index |-> [exists |-> FALSE, files |-> <<>>],
                first |-> NoIndex, ret |-> NoIndex] : a \in Archives}

NextIndex ==
    /\ \/ InstallArchive
       \/ GetPackageIndexFileCall
       \/ DeleteIndexFile
    /\ UNCHANGED <<installVars, fetchVars, pure, ops, ex, loc>>

(***************************************************************************)
(* shallowParse, character by character: a text is a sequence of           *)
(* characters                                                              *)
(***************************************************************************)
Quote == "\""
Backslash == "\\"

\* a parsed value: its type, the characters of a string or the word of a
\* boolean, the value of a number
JValue(t, str, n) == [t |-> t, s |-> str, n |-> n]

NotSet == JValue("undefined", <<>>, 0)

\* input[i], undefined outside the string
CharAt(input, i) == IF i \in DOMAIN input THEN input[i] ELSE "undefined"

\* while (/\s/.test(input[i])) i++
RECURSIVE SkipSpace(_, _)
SkipSpace(input, i) ==
    IF CharAt(input, i) = " " THEN SkipSpace(input, i + 1) ELSE i

\* the backslashes that end at position j
RECURSIVE Backslashes(_, _)
Backslashes(input, j) ==
    IF j >= 1 /\ input[j] = Backslash THEN 1 + Backslashes(input, j - 1) ELSE 0

\* from i on, the first quote preceded by an even number of backslashes, or
\* the end of the input
RECURSIVE ClosingQuote(_, _)
ClosingQuote(input, i) ==
    IF i > Len(input) THEN i
    ELSE IF input[i] = Quote /\ Backslashes(input, i - 1) % 2 = 0 THEN i
    ELSE ClosingQuote(input, i + 1)

\* the character a \uXXXX escape stands for
CodePoint(hex) ==
    CASE hex = <<"0", "0", "6", "1">> -> "a"
      [] hex = <<"0", "0", "6", "2">> -> "b"
      [] OTHER -> "?"

\* JSON.parse of the inside of a quoted string: escapes are replaced by the
\* characters they stand for
RECURSIVE Unescape(_)
Unescape(raw) ==
    IF raw = <<>> THEN <<>>
    ELSE IF raw[1] # Backslash THEN <<raw[1]>> \o Unescape(Tail(raw))
    ELSE IF Len(raw) >= 6 /\ raw[2] = "u"
    THEN <<CodePoint(SubSeq(raw, 3, 6))>> \o Unescape(SubSeq(raw, 7, Len(raw)))
    ELSE <<(CASE raw[2] = "n" -> "LF" [] OTHER -> raw[2])>>
         \o Unescape(SubSeq(raw, 3, Len(raw)))

\* /[\dEe\+\-\.]/
NumberChars == {Digits[k] : k \in DOMAIN Digits} \cup {"E", "e", "+", "-", "."}

\* while (i < len && /[\dEe\+\-\.]/.test(input[i])) numStr += input[i++]
RECURSIVE NumberEnd(_, _)
NumberEnd(input, i) ==
    IF i <= Len(input) /\ input[i] \in NumberChars THEN NumberEnd(input, i + 1) ELSE i

RECURSIVE Natural(_)
Natural(chars) ==
    IF chars = <<>> THEN 0
    ELSE 10 * Natural(SubSeq(chars, 1, Len(chars) - 1))
         + ((CHOOSE k \in DOMAIN Digits : Digits[k] = chars[Len(chars)]) - 1)

RECURSIVE Pow10(_)
Pow10(e) == IF e = 0 THEN 1 ELSE 10 * Pow10(e - 1)

\* Number(numStr) of an integer literal with an optional exponent
NumberOf(chars) ==
    LET neg == chars # <<>> /\ chars[1] = "-"
        body == IF neg THEN Tail(chars) ELSE chars
        parts == Split(body, "e")
        mantissa == Natural(parts[1])
        exponent == IF Len(parts) = 2 THEN Natural(parts[2]) ELSE 0
    IN (IF neg THEN -1 ELSE 1) * mantissa * Pow10(exponent)

\* input.startsWith(word, i)
StartsWithAt(input, word, i) ==
    i + Len(word) - 1 <= Len(input) /\ SubSeq(input, i, i + Len(word) - 1) = word

TrueWord == <<"t", "r", "u", "e">>
FalseWord == <<"f", "a", "l", "s", "e">>
NullWord == <<"n", "u", "l", "l">>

\* the skip of a nested object or array: brackets are matched, strings inside
\* are passed over
RECURSIVE SkipNested(_, _, _)
SkipNested(input, i, stack) ==
    IF i > Len(input) \/ stack = <<>> THEN i
    ELSE IF input[i] = Quote
    THEN SkipNested(input, ClosingQuote(input, i + 1) + 1, stack)
    ELSE IF input[i] \in {"{", "["}
    THEN SkipNested(input, i + 1, Append(stack, input[i]))
    ELSE IF \/ input[i] = "}" /\ stack[Len(stack)] = "{"
            \/ input[i] = "]" /\ stack[Len(stack)] = "["
    THEN SkipNested(input, i + 1, SubSeq(stack, 1, Len(stack) - 1))
    ELSE SkipNested(input, i + 1, stack)

\* while (i < len && input[i] !== ',' && input[i] !== '}') i++
RECURSIVE SkipUnknown(_, _)
SkipUnknown(input, i) ==
    IF i <= Len(input) /\ input[i] \notin {",", "}"} THEN SkipUnknown(input, i + 1)
    ELSE i

\* the value that starts at i, and where the scan goes on
ParseValue(input, i) ==
    LET c == CharAt(input, i)
        close == ClosingQuote(input, i + 1)
        numEnd == NumberEnd(input, i)
    IN CASE c = Quote ->
               [value |-> JValue("string", Unescape(SubSeq(input, i + 1, close - 1)), 0),
                next |-> close + 1]
         [] c \in {Digits[k] : k \in DOMAIN Digits} \cup {"-"} ->
               [value |-> JValue("number", <<>>, NumberOf(SubSeq(input, i, numEnd - 1))),
                next |-> numEnd]
         [] StartsWithAt(input, TrueWord, i) ->
               [value |-> JValue("boolean", TrueWord, 0), next |-> i + 4]
         [] StartsWithAt(input, FalseWord, i) ->
               [value |-> JValue("boolean", FalseWord, 0), next |-> i + 5]
         [] StartsWithAt(input, NullWord, i) ->
               [value |-> JValue("null", <<>>, 0), next |-> i + 4]
         [] c \in {"{", "["} ->
               [value |-> NotSet, next |-> SkipNested(input, i + 1, <<c>>)]
         [] OTHER ->
               [value |-> NotSet, next |-> SkipUnknown(input, i)]

\* the loop of shallowParse from i on: key, colon, value, comma
RECURSIVE ParseMembers(_, _, _)
ParseMembers(input, i, object) ==
    LET atKey == SkipSpace(input, i)
        keyEnd == ClosingQuote(input, atKey + 1)
        key == SubSeq(input, atKey + 1, keyEnd - 1)
        atColon == SkipSpace(input, keyEnd + 1)
        v == ParseValue(input, SkipSpace(input, atColon + 1))
        after == SkipSpace(input, v.next)
        next == IF CharAt(input, after) = "," THEN after + 1 ELSE after
    IN IF i >= Len(input) \/ CharAt(input, atKey) = "}"
       THEN [ok |-> TRUE, value |-> object]
       ELSE IF CharAt(input, atKey) # Quote \/ CharAt(input, atColon) # ":"
       THEN [ok |-> FALSE, value |-> << >>]
       ELSE ParseMembers(input, next,
               IF v.value = NotSet THEN object
               ELSE [k \in DOMAIN object \cup {key} |->
                        IF k = key THEN v.value ELSE object[k]])

\* shallowParse(input)
ShallowParseText(input) ==
    LET text == Trim(input)
    IN IF text = <<>> \/ text[1] # "{" \/ text[Len(text)] # "}"
       THEN [ok |-> FALSE, value |-> << >>]
       ELSE ParseMembers(text, 2, << >>)

(***************************************************************************)
(* Functions of the installer, applied to arguments                        *)
(***************************************************************************)
\* what versions[v] of a metadata document can hold for dist.tarball and url
TarballFields == {Undefined, <<>>, CdnUrl}
UrlFields == {Undefined, PlainUrl}

\* the arguments of getTarballUrl: the configured registry, the metadata
\* document the registry answers with, the identifier
TarballInputs ==
    [registryUrl : {DefaultRegistryUrl, RegistryUrl, FallbackUrlBase},
     obj : [id : {Lib, AppExamples}, version : {V100, V999}],
     data : {[status |-> 404, versions |-> <<>>],
             [status |-> 200, versions |-> <<>>]}
            \cup {[status |-> 200,
                   versions |-> [v \in {V100} |-> [tarball |-> t, url |-> u]]] :
                     t \in TarballFields, u \in UrlFields}]

\* getTarballUrl(packageObject) is called and settles
ApplyGetTarballUrl ==
    /\ pure.fn = "getTarballUrl"
    /\ ~pure.done
    /\ pure' = [pure EXCEPT !.done = TRUE,
                   !.out = GetTarballUrl(pure.in.registryUrl, pure.in.data,
                                         pure.in.obj)]

\* the strings toPackageObject is called with: a name, alone or followed by
\* '@' or '#' and a version, with or without blanks around
IdentifierString(name, sep, version, pad) ==
    LET core == IF sep = None THEN name ELSE name \o <<sep>> \o version
    IN CASE pad = "left"  -> <<" ">> \o core
         [] pad = "right" -> core \o <<" ">>
         [] OTHER         -> core

IdentifierInputs ==
    [name : {App, AppExamples, R4Core, Ghost, Untagged},
     sep : {"@", "#", None},
     version : {V100, V999, Latest},
     pad : {None, "left", "right"}]

\* toPackageObject(packageId) is called with a string and settles
ApplyToPackageObject ==
    /\ pure.fn = "toPackageObject"
    /\ ~pure.done
    /\ pure' = [pure EXCEPT !.done = TRUE,
                   !.out = ToPackageObject(StrArg(
                              IdentifierString(pure.in.name, pure.in.sep,
                                               pure.in.version, pure.in.pad)))]

\* how a JSON text is written: without blanks, with blanks around every
\* token, or with the letter a written as a
Styles == {"compact", "spaced", "unicode"}

\* the characters of a string as JSON writes them between quotes
RECURSIVE Escape(_, _)
Escape(str, style) ==
    IF str = <<>> THEN <<>>
    ELSE (CASE str[1] = Quote -> <<Backslash, Quote>>
            [] str[1] = Backslash -> <<Backslash, Backslash>>
            [] str[1] = "LF" -> <<Backslash, "n">>
            [] str[1] = "a" /\ style = "unicode" -> <<Backslash, "u", "0", "0", "6", "1">>
            [] OTHER -> <<str[1]>>)
         \o Escape(Tail(str), style)

Quoted(str, style) == <<Quote>> \o Escape(str, style) \o <<Quote>>

\* the values of the members: strings, numbers, true, null, and an object
\* and an array given by their text
JsonValues ==
    { JValue("string", <<"a">>, 0),
      JValue("string", <<Quote, "}", "LF", Backslash>>, 0),
      JValue("number", <<>>, 7),
      JValue("number", <<>>, -10),
      JValue("boolean", TrueWord, 0),
      JValue("null", <<>>, 0),
      JValue("object", <<"{", Quote, "b", Quote, ":", Quote, "}", Backslash, Quote,
                         Quote, "}">>, 0),
      JValue("array", <<"[", "1", ",", Quote, "]", Quote, ",", "{", Quote, "a",
                        Quote, ":", "[", "]", "}", "]">>, 0) }

JsonKeys == { <<"a">>, <<"b">>, <<"b", Quote>> }

\* the text of a value
Written(v, style) ==
    CASE v.t = "string" -> Quoted(v.s, style)
      [] v.t = "number" /\ v.n = 7 -> <<"7">>
      [] v.t = "number" /\ v.n = -10 ->
            IF style = "compact" THEN <<"-", "1", "0">> ELSE <<"-", "1", "e", "1">>
      [] v.t = "null" -> NullWord
      [] OTHER -> v.s

\* a JSON object: its members in the order of the text
JsonDocuments ==
    UNION {[1..n -> [key : JsonKeys, value : JsonValues]] : n \in 0..MaxMembers}

\* the text of a JSON object
RECURSIVE WrittenMembers(_, _)
WrittenMembers(doc, style) ==
    LET sp == IF style = "spaced" THEN <<" ">> ELSE <<>>
        first == sp \o Quoted(doc[1].key, style) \o sp \o <<":">> \o sp
                 \o Written(doc[1].value, style) \o sp
    IN IF doc = <<>> THEN sp
       ELSE IF Len(doc) = 1 THEN first
       ELSE first \o <<",">> \o WrittenMembers(Tail(doc), style)

JsonText(doc, style) ==
    LET sp == IF style = "spaced" THEN <<" ">> ELSE <<>>
    IN sp \o <<"{">> \o WrittenMembers(doc, style) \o <<"}">> \o sp

\* JSON.parse of the text of doc: each key with the value of its last member
FullParse(doc) ==
    [k \in {doc[i].key : i \in DOMAIN doc} |->
        doc[CHOOSE i \in DOMAIN doc :
               doc[i].key = k /\ \A j \in DOMAIN doc : doc[j].key = k => j <= i].value]

\* shallowParse(input) is called with the text of a JSON object
ApplyShallowParse ==
    /\ pure.fn = "shallowParse"
    /\ ~pure.done
    /\ pure' = [pure EXCEPT !.done = TRUE,
                   !.out = ShallowParseText(JsonText(pure.in.doc, pure.in.style))]

\* path.normalize of an absolute path, given as its segments: empty and "."
\* segments are dropped, ".." removes the segment before it, and at the root
\* it is dropped
RECURSIVE PathNormalize(_, _)
PathNormalize(segments, acc) ==
    IF segments = <<>> THEN acc
    ELSE LET s == Head(segments) IN
         PathNormalize(Tail(segments),
                   IF s \in {"", "."} THEN acc
                   ELSE IF s = ".."
                        THEN (IF acc = <<>> THEN acc
                              ELSE SubSeq(acc, 1, Len(acc) - 1))
                        ELSE Append(acc, s))

\* path.join(a, b): the two joined by a separator, then normalized
PathJoin(a, b) == PathNormalize(a \o b, <<>>)

\* the directories temp.mkdirSync() makes, and the root of the cache
TempDirectories == {<<"tmp", "d1">>, <<"tmp", "d2">>}
CachePath == <<"home", ".fhir", "packages">>

\* header.name of an archive entry, split at the separators; a name that
\* starts with a separator has an empty first segment
EntryNames ==
    { <<"package", "package.json">>,
      <<"package", "other", "b.json">>,
      <<".", "package", "a.json">>,
      <<"", "etc", "a.json">>,
      <<"package", "..", "package", "a.json">>,
      <<"..", "a.json">>,
      <<"..", "d2", "package", "a.json">>,
      <<"package", "..", "..", "..", "home", ".fhir", "packages",
        "lib#1.0.0", "package", "package.json">> }

\* the path extractTarball writes an entry to
FullPath(tempDirectory, name) == PathJoin(tempDirectory, name)

\* extractTarball meets an entry of the archive and opens its file
ApplyFullPath ==
    /\ pure.fn = "fullPath"
    /\ ~pure.done
    /\ pure' = [pure EXCEPT !.done = TRUE,
                   !.out = FullPath(pure.in.tempDirectory, pure.in.name)]

InitPure ==
    /\ InitCommon
    /\ OpsIdle
    /\ ExIdle
    /\ LocIdle
    /\ FetchIdle
    /\ IxIdle
    /\ req = StrArg(Lib)
    /\ skipExamples = FALSE
    /\ budget = [p \in Procs |-> 0]
    /\ pure \in {[fn |-> "getTarballUrl", done |-> FALSE, in |-> i, out |-> <<>>] :
                    i \in TarballInputs}
              \cup
              {[fn |-> "toPackageObject", done |-> FALSE, in |-> i, out |-> <<>>] :
                    i \in IdentifierInputs}
              \cup
              {[fn |-> "shallowParse", done |-> FALSE, in |-> i, out |-> <<>>] :
                    i \in [doc : JsonDocuments, style : Styles]}
              \cup
              {[fn |-> "fullPath", done |-> FALSE, in |-> i, out |-> <<>>] :
                    i \in [tempDirectory : TempDirectories, name : EntryNames]}

NextPure ==
    /\ \/ ApplyGetTarballUrl
       \/ ApplyToPackageObject
       \/ ApplyShallowParse
       \/ ApplyFullPath
    /\ UNCHANGED <<installVars, fetchVars, ix, ops, ex, loc>>

(***************************************************************************)
(* The public operations over the cache, one call at a time, while other   *)
(* processes create and remove cache directories                           *)
(***************************************************************************)
Lib100 == [id |-> Lib, version |-> V100]

\* the identifiers the operations are called with
OpArgs ==
    { ObjArg(Lib, V100),
      StrArg(Lib \o <<"@">> \o V100),
      StrArg(Lib \o <<"#">> \o V100),
      StrArg(Lib),
      ObjArg(Ghost, V100),
      StrArg(Ghost) }

Resolved(op, arg, opt, val) ==
    [op |-> op, arg |-> arg, opt |-> opt, ok |-> TRUE, val |-> val]

Rejected(op, arg, opt, err) ==
    [op |-> op, arg |-> arg, opt |-> opt, ok |-> FALSE, val |-> <<err>>]

\* a call is made: what the cache and the destination were when it began
Called(call) ==
    [ops EXCEPT !.n = @ + 1, !.call = call, !.before = cache, !.destBefore = ops.dest]

\* a directory of the cache root with nothing in it
EmptyDir == [id |-> <<>>, version |-> <<>>, files |-> {}, deps |-> << >>,
             index |-> FALSE, tmp |-> <<>>]

\* the cache root without dir
Without(fs, dir) == [d \in DOMAIN fs \ {dir} |-> fs[d]]

\* the cache root with tree at dir
With(fs, dir, tree) == [d \in DOMAIN fs \cup {dir} |-> IF d = dir THEN tree ELSE fs[d]]

\* a qualifying file that is not a JSON object
BrokenFile == "Broken-d.json"

\* the local sources of lib 1.0.0: a .tgz file or a directory, with or
\* without a file shallowParse rejects
LocalSources == [kind : {"tgz", "dir"}, broken : BOOLEAN]

\* the tree a local source holds; extractTarball has written the index file
\* of a tarball
LocalTree(src) ==
    [id |-> Lib, version |-> V100,
     files |-> {"package.json", "StructureDefinition-a.json", "Local-c.json"}
               \cup (IF src.broken THEN {BrokenFile} ELSE {}),
     deps |-> << >>,
     index |-> src.kind = "tgz",
     tmp |-> <<>>]

\* variant: the index is written with the directories it needs
GeneratePackageIndexIn_OutputJson(fs, dir) ==
    IF dir \notin DOMAIN fs
    THEN [ok |-> TRUE, err |-> None,
          fs |-> With(fs, dir, [EmptyDir EXCEPT !.index = TRUE])]
    ELSE IF BrokenFile \in fs[dir].files
    THEN [ok |-> FALSE, err |-> "SyntaxError", fs |-> fs]
    ELSE [ok |-> TRUE, err |-> None, fs |-> [fs EXCEPT ![dir].index = TRUE]]

\* generatePackageIndex on the cache root fs: readdir of {dir}/package throws
\* ENOENT when it is not there, shallowParse throws on a file that is not a
\* JSON object, writeJSON comes last
GeneratePackageIndexIn(fs, dir) ==
    IF dir \notin DOMAIN fs \/ "package.json" \notin fs[dir].files
    THEN [ok |-> FALSE, err |-> "ENOENT", fs |-> fs]
    ELSE IF BrokenFile \in fs[dir].files
    THEN [ok |-> FALSE, err |-> "SyntaxError", fs |-> fs]
    ELSE [ok |-> TRUE, err |-> None, fs |-> [fs EXCEPT ![dir].index = TRUE]]

\* isInstalled(packageId)
IsInstalledCall ==
    /\ ops.n < MaxOps
    /\ \E arg \in OpArgs :
          LET r == ToPackageObject(arg)
          IN ops' = Called(IF ~r.ok THEN Rejected("isInstalled", arg, <<>>, r.err)
                           ELSE Resolved("isInstalled", arg, <<>>,
                                         IF IsInstalled(r.obj) THEN <<"true">>
                                         ELSE <<"false">>))
    /\ UNCHANGED cache

\* getPackageIndexFile(packageId): readJSON of the index file when it
\* exists, otherwise generatePackageIndex
GetPackageIndexFileOp ==
    /\ ops.n < MaxOps
    /\ \E arg \in OpArgs :
          LET r == ToPackageObject(arg)
              dir == ToDirName(r.obj)
              gen == GeneratePackageIndexIn(cache, dir)
              op == "getPackageIndexFile"
          IN IF ~r.ok
             THEN /\ ops' = Called(Rejected(op, arg, <<>>, r.err))
                  /\ UNCHANGED cache
             ELSE IF dir \in DOMAIN cache /\ cache[dir].index
             THEN /\ ops' = Called(Resolved(op, arg, <<>>, <<"index">>))
                  /\ UNCHANGED cache
             ELSE /\ ops' = Called(IF gen.ok THEN Resolved(op, arg, <<>>, <<"index">>)
                                   ELSE Rejected(op, arg, <<>>, gen.err))
                  /\ cache' = gen.fs

\* installLocalPackage(src, {override}): the identifier is read from the
\* manifest; return false when installed and override is not set; otherwise
\* fs.remove of the cache directory, cachePackage (move of the extracted
\* tarball, copy of a directory), generatePackageIndex
InstallLocalPackage ==
    /\ ops.n < MaxOps
    /\ \E src \in LocalSources, override \in BOOLEAN :
          LET dir == ToDirName(Lib100)
              op == "installLocalPackage"
              opt == [src |-> src, override |-> override]
              cached == With(Without(cache, dir), dir, LocalTree(src))
              gen == GeneratePackageIndexIn(cached, dir)
          IN IF IsInstalled(Lib100) /\ ~override
             THEN /\ ops' = Called(Resolved(op, <<>>, opt, <<"false">>))
                  /\ UNCHANGED cache
             ELSE /\ ops' = Called(IF gen.ok THEN Resolved(op, <<>>, opt, <<"true">>)
                                   ELSE Rejected(op, <<>>, opt, gen.err))
                  /\ cache' = gen.fs

\* downloadPackage: the path the package is moved to
DownloadPath(obj, extract) ==
    IF extract THEN ToDirName(obj)
    ELSE obj.id \o <<"-">> \o obj.version \o <<".tgz">>

\* variant: the destination is replaced whatever overwrite says
FsMove_Always(fs, target, content, overwrite) ==
    [ok |-> TRUE, fs |-> With(fs, target, content)]

\* fs.move(src, dest, {overwrite}): 'dest already exists.' when the
\* destination is there and overwrite is not set
FsMove(fs, target, content, overwrite) ==
    IF target \in DOMAIN fs /\ ~overwrite
    THEN [ok |-> FALSE, fs |-> fs]
    ELSE [ok |-> TRUE, fs |-> With(fs, target, content)]

\* downloadPackage(packageId, {destination, overwrite, extract})
DownloadPackage ==
    /\ ops.n < MaxOps
    /\ \E arg \in OpArgs, extract \in BOOLEAN, overwrite \in BOOLEAN :
          LET r == ToPackageObject(arg)
              url == GetTarballUrl(DefaultRegistryUrl, PackageData(r.obj.id), r.obj)
              finalPath == DownloadPath(r.obj, extract)
              moved == FsMove(ops.dest, finalPath, "downloaded", overwrite)
              op == "downloadPackage"
              opt == [extract |-> extract, overwrite |-> overwrite]
          IN ops' = IF ~r.ok THEN Called(Rejected(op, arg, opt, r.err))
                    ELSE IF ~url.ok THEN Called(Rejected(op, arg, opt, url.err))
                    ELSE IF ~moved.ok
                    THEN Called(Rejected(op, arg, opt, "dest already exists."))
                    ELSE [Called(Resolved(op, arg, opt, finalPath)) EXCEPT
                             !.dest = moved.fs]
    /\ UNCHANGED cache

\* another process removes a cache directory
ExternalRemove ==
    /\ \E dir \in DOMAIN cache :
          /\ cache' = Without(cache, dir)
          /\ ops' = [ops EXCEPT !.gone = @ \cup {dir}, !.call = NoCall]

\* another process creates a cache directory
ExternalCreate ==
    /\ \E dir \in {ToDirName(Lib100), ToDirName([id |-> Ghost, version |-> V100])} :
          /\ dir \notin DOMAIN cache
          /\ dir \notin ops.gone
          /\ cache' = With(cache, dir, EmptyDir)
          /\ ops' = [ops EXCEPT !.made = @ \cup {dir}, !.call = NoCall]

\* the cache holds nothing, or lib 1.0.0 as install() leaves it; the download
\* destination holds nothing, or something at the paths of lib 1.0.0
InitOps ==
    /\ cache \in {<< >>, With(<< >>, ToDirName(Lib100), ExtractTarball(Lib100))}
    /\ pstack = [p \in Procs |-> <<>>]
    /\ staged = [p \in Procs |-> None]
    /\ result = [p \in Procs |-> None]
    /\ netLog = [p \in Procs |-> {}]
    /\ attempts = [p \in Procs |-> <<>>]
    /\ failure = [p \in Procs |-> NoFailure]
    /\ snap = [p \in Procs |-> None]
    /\ prev = [p \in Procs |-> None]
    /\ warned = [p \in Procs |-> FALSE]
    /\ req = StrArg(Lib)
    /\ skipExamples = FALSE
    /\ budget = [p \in Procs |-> 0]
    /\ FetchIdle
    /\ PureIdle
    /\ IxIdle
    /\ ExIdle
    /\ LocIdle
    /\ \E old \in SUBSET {DownloadPath(Lib100, e) : e \in BOOLEAN} :
          ops = [n |-> 0, call |-> NoCall, before |-> << >>,
                 dest |-> [path \in old |-> "old"],
                 destBefore |-> << >>, gone |-> {}, made |-> {}]

NextOps ==
    /\ \/ IsInstalledCall
       \/ GetPackageIndexFileOp
       \/ InstallLocalPackage
       \/ DownloadPackage
       \/ ExternalRemove
       \/ ExternalCreate
    /\ UNCHANGED <<pstack, staged, result, budget, req, skipExamples, netLog,
                   attempts, failure, snap, prev, warned, fetchVars, pure, ix, ex, loc>>

(***************************************************************************)
(* The work items of extractTarball and generatePackageIndex under the     *)
(* process-wide limiter                                                    *)
(***************************************************************************)
\* limit = pLimit(Math.max(4, os.cpus().length))
Concurrency == IF NCpus > 4 THEN NCpus ELSE 4

\* the states of a work item whose function is running
Active == {"write", "scan"}

ActiveCount(st) == Cardinality({it \in Items : st[it] \in Active})

\* where the function of a work item begins: an entry is piped to disk, a
\* file of a package folder is read and scanned
FirstPhase(it) == IF it[1] = "extract" THEN "write" ELSE "scan"

\* variant: the limiter starts every item at once
MayStart_Unlimited(st) ==
    TRUE

\* the limiter starts an item only while fewer than Concurrency are running
MayStart(st) ==
    ActiveCount(st) < Concurrency

\* the limiter takes the head of its queue when it may start one
ResumeNext(e) ==
    IF e.queue # <<>> /\ MayStart(e.st)
    THEN [e EXCEPT !.st[Head(e.queue)] = FirstPhase(Head(e.queue)),
                   !.queue = Tail(e.queue)]
    ELSE e

\* limit(fn): the item joins the queue, and the head of the queue starts when
\* it may
Limit(e, it) ==
    LET enqueued == [e EXCEPT !.st[it] = "queued", !.queue = Append(e.queue, it)]
    IN  ResumeNext(enqueued)

\* the items 1..s of a job have started
StartedUpTo(e, job, s) ==
    [it \in Items |-> IF it[1] = job /\ it[2] <= s THEN FirstPhase(it) ELSE e.st[it]]

\* files.map(file => limit(...)): the items 1..n of the job are submitted in
\* order; each starts while the queue is empty and the limiter may start one,
\* the others wait in the order they came
LimitAll(e, job, n) ==
    LET Starts(i) == e.queue = <<>> /\ MayStart(StartedUpTo(e, job, i - 1))
        s == CHOOSE k \in 0..n :
                /\ \A i \in 1..k : Starts(i)
                /\ k = n \/ ~Starts(k + 1)
    IN  [e EXCEPT
           !.st = [it \in Items |->
                     IF it[1] = job /\ it[2] \in (s + 1)..n
                     THEN "queued"
                     ELSE StartedUpTo(e, job, s)[it]],
           !.queue = e.queue \o [i \in 1..(n - s) |-> <<job, s + i>>]]

ItemsOf(job) == {it \in Items : it[1] = job}

Submitted(e, job) == {it \in ItemsOf(job) : e.st[it] # "none"}

\* variant: the results are taken as soon as the stream has ended
AllResolved_StreamEnded(e, job) ==
    \A it \in Submitted(e, job) : e.st[it] # "failed"

\* Promise.all resolves when every submitted item has resolved
AllResolved(e, job) ==
    \A it \in Submitted(e, job) : e.st[it] = "done"

Fault(kind, k, via) == [kind |-> kind, item |-> k, via |-> via]

\* the first failed item of a job, in the order the items failed
FirstFailedItem(e, job) ==
    LET F == e.faults[job]
        I == {i \in 1..Len(F) : F[i].kind = "write" \/ F[i].kind = "scan"}
    IN  F[CHOOSE i \in I : \A j \in I : i <= j]

exOthers == <<pstack, staged, result, budget, req, skipExamples, netLog,
              attempts, failure, snap, prev, warned, fetchVars, pure, ix, ops, loc>>

\* extractTarball is called: the pipeline starts
ExtractTarballCall ==
    /\ ex.pc["extract"] = "idle"
    /\ ex' = [ex EXCEPT !.pc["extract"] = "streaming"]
    /\ UNCHANGED cache

\* extract.on('entry'): the work item of the entry is submitted and the
\* stream moves on to the next entry
OnEntry ==
    /\ ex.pc["extract"] = "streaming"
    /\ ex.emitted < NEntries
    /\ ex' = Limit([ex EXCEPT !.emitted = @ + 1], <<"extract", ex.emitted + 1>>)
    /\ UNCHANGED cache

\* the file of an entry is written: 'finish' resolves the inner promise
WriteDone ==
    \E it \in ItemsOf("extract") :
       /\ ex.st[it] = "write"
       /\ ex' = [ex EXCEPT !.st[it] = "scan"]
       /\ UNCHANGED cache

\* the rest of the function of an item: the file is read and scanned where it
\* qualifies (a file that does not parse is skipped by extractTarball), the
\* item resolves and the limiter goes on
ScanDone ==
    \E it \in Items :
       /\ ex.st[it] = "scan"
       /\ ex' = ResumeNext([ex EXCEPT !.st[it] = "done"])
       /\ UNCHANGED cache

\* the write of an entry fails: the item rejects and the limiter goes on; the
\* error reaches the stream of the entry when that stream is still open, and
\* the pipeline then rejects with it
WriteFail ==
    \E it \in ItemsOf("extract"), open \in BOOLEAN :
       /\ ex.st[it] = "write"
       /\ LET torn == open /\ ex.pc["extract"] = "streaming"
              f == Fault("write", it[2], IF torn THEN "pipeline" ELSE "all")
              e == [ex EXCEPT !.st[it] = "failed",
                              !.faults["extract"] = Append(@, f)]
          IN  ex' = ResumeNext(IF torn
                               THEN [e EXCEPT !.pc["extract"] = "failed",
                                              !.err["extract"] = f]
                               ELSE e)
       /\ UNCHANGED cache

\* generatePackageIndex does not catch a file that does not parse: the item
\* rejects and the limiter goes on
ScanFail ==
    \E it \in ItemsOf("generate") :
       /\ ex.st[it] = "scan"
       /\ ex' = ResumeNext([ex EXCEPT
                   !.st[it] = "failed",
                   !.faults["generate"] = Append(@, Fault("scan", it[2], "all"))])
       /\ UNCHANGED cache

\* the decompression fails: await pipeline(...) rejects
GunzipFail ==
    /\ ex.pc["extract"] = "streaming"
    /\ LET f == Fault("gunzip", 0, "pipeline")
       IN  ex' = [ex EXCEPT !.pc["extract"] = "failed",
                            !.err["extract"] = f,
                            !.faults["extract"] = Append(@, f)]
    /\ UNCHANGED cache

\* the stream ends: await pipeline(...) resolves
PipelineDone ==
    /\ ex.pc["extract"] = "streaming"
    /\ ex.emitted = NEntries
    /\ ex' = [ex EXCEPT !.pc["extract"] = "awaiting"]
    /\ UNCHANGED cache

\* generatePackageIndex is called: every file is submitted at once
GeneratePackageIndexCall ==
    /\ ex.pc["generate"] = "idle"
    /\ ex' = LimitAll([ex EXCEPT !.pc["generate"] = "awaiting"], "generate", NFiles)
    /\ UNCHANGED cache

\* await Promise.all(...) resolves and the index file is written
WriteIndex ==
    \E job \in Jobs :
       /\ ex.pc[job] = "awaiting"
       /\ AllResolved(ex, job)
       /\ ex' = [ex EXCEPT
                   !.pc[job] = "indexed",
                   !.indexFile[job] =
                       [written |-> TRUE,
                        files |-> {it \in ItemsOf(job) : ex.st[it] = "done"}]]
       /\ UNCHANGED cache

\* await Promise.all(...) rejects with the first item that failed
RejectAll ==
    \E job \in Jobs :
       /\ ex.pc[job] = "awaiting"
       /\ \E it \in Submitted(ex, job) : ex.st[it] = "failed"
       /\ ex' = [ex EXCEPT !.pc[job] = "failed",
                           !.err[job] = FirstFailedItem(ex, job)]
       /\ UNCHANGED cache

\* install: cachePackage moves the directory extractTarball returned
CacheStaged ==
    /\ ex.pc["extract"] = "indexed"
    /\ ex' = [ex EXCEPT !.pc["extract"] = "cached"]
    /\ cache' = With(cache, ToDirName(Lib100), ExtractTarball(Lib100))

\* what the event loop does without a failure
ExtractProgress ==
    \/ ExtractTarballCall
    \/ OnEntry
    \/ WriteDone
    \/ ScanDone
    \/ PipelineDone
    \/ GeneratePackageIndexCall
    \/ WriteIndex
    \/ RejectAll
    \/ CacheStaged

InitExtract ==
    /\ InitCommon
    /\ OpsIdle
    /\ FetchIdle
    /\ PureIdle
    /\ IxIdle
    /\ req = StrArg(Lib)
    /\ skipExamples = FALSE
    /\ budget = [p \in Procs |-> 0]
    /\ LocIdle
    /\ ex = NoWork

NextExtract ==
    /\ \/ ExtractTarballCall
       \/ OnEntry
       \/ WriteDone
       \/ ScanDone
       \/ WriteFail
       \/ ScanFail
       \/ GunzipFail
       \/ PipelineDone
       \/ GeneratePackageIndexCall
       \/ WriteIndex
       \/ RejectAll
       \/ CacheStaged
    /\ UNCHANGED exOthers

Spec == Init /\ [][Next]_vars

SpecSeq == InitSeq /\ [][Next]_vars

SpecFetch == InitFetch /\ [][NextFetch]_vars

SpecPure == InitPure /\ [][NextPure]_vars

SpecIndex == InitIndex /\ [][NextIndex]_vars

SpecOps == InitOps /\ [][NextOps]_vars

SpecCycle == InitCycle /\ [][NextCycle]_vars

SpecExtract == InitExtract /\ [][NextExtract]_vars

\* the event loop runs whatever is ready
SpecExtractLive ==
    /\ InitExtract
    /\ [][NextExtract]_vars
    /\ WF_vars(ExtractProgress /\ UNCHANGED exOthers)

(***************************************************************************)
(* What the claims speak of                                                *)
(***************************************************************************)
\* the top-level call of p has returned or rejected, and p calls no more
Done(p) == budget[p] = 0 /\ ~Running(p) /\ result[p] # None

\* the package object an install() argument denotes
ArgObject(arg) ==
    IF arg.form = "object" THEN [id |-> arg.id, version |-> arg.version]
    ELSE ToPackageObject(arg).obj

ArgValid(arg) == arg.form = "object" \/ ToPackageObject(arg).ok

\* the name and the version an install() argument is written with
ArgName(arg) ==
    IF arg.form = "object" THEN arg.id
    ELSE Split(Split(Trim(arg.str), "#")[1], "@")[1]

ArgVersion(arg) ==
    IF arg.form = "object" THEN arg.version
    ELSE GetVersionFromPackageString(Trim(arg.str))

\* the registry serves name@version
Available(obj) ==
    LET data == RegistryData(obj.id)
    IN data.status = 200 /\ obj.version \in data.versions

Declared(obj) ==
    LET deps == ManifestDeps(obj.id, obj.version) IN {deps[k] : k \in DOMAIN deps}

Kept(dep) == ~(skipExamples /\ Includes(dep[1], "examples"))

Exact(dep) == [id |-> dep[1], version |-> dep[2]]

Remapped(dep) ==
    IF dep[1] = R4Core /\ dep[2] = V400 THEN [id |-> R4Core, version |-> V401]
    ELSE Exact(dep)

\* the packages a traversal from obj is to reach
RECURSIVE Reached(_, _)
Reached(obj, fuel) ==
    {obj} \cup
    IF fuel = 0 \/ ~Available(obj) THEN {}
    ELSE UNION {Reached(Remapped(dep), fuel - 1) :
                    dep \in {x \in Declared(obj) : Kept(x)}}

ReqClosure == Reached(ArgObject(req), 4)

Installable == ArgValid(req) /\ \A q \in ReqClosure : Available(q)

\* a cache directory that holds the whole archive and its index file
Complete(fs, dir) ==
    /\ dir \in DOMAIN fs
    /\ ToDirName([id |-> fs[dir].id, version |-> fs[dir].version]) = dir
    /\ fs[dir].files = ArchiveFiles(fs[dir].id, fs[dir].version)
    /\ fs[dir].index

\* the packages the current call of p invoked install() on
Visited(p) == {ArgObject(attempts[p][k]) : k \in DOMAIN attempts[p]}

(***************************************************************************)
(* C1: N concurrent install(X) calls for one X: every call returns true,   *)
(* none raises a destination-already-exists error, and the cache holds     *)
(* exactly one complete directory for X (and for each package X needs).    *)
(***************************************************************************)
C1_ConcurrentInstall ==
    /\ \A p \in Procs : result[p] # "DestExists"
    /\ \A p \in Procs : (Done(p) /\ Installable) =>
          /\ result[p] = "true"
          /\ \A q \in ReqClosure : Complete(cache, ToDirName(q))
    /\ ((\A p \in Procs : Done(p)) /\ Installable) =>
          DOMAIN cache = {ToDirName(q) : q \in ReqClosure}

\* all callers are done and one of them lost the race for the cache slot
C1_Witness ==
    /\ Installable
    /\ \A p \in Procs : Done(p) /\ result[p] = "true"
    /\ \E p \in Procs : warned[p]

ConcreteVersion(arg) == ArgVersion(arg) # Latest

C3_Original ==
    \A p \in Procs :
        result[p] = "true" =>
            /\ IsInstalled(ArgObject(req))
            /\ \A q \in Visited(p) : \A dep \in Declared(q) :
                   Kept(dep) => IsInstalled(Exact(dep))

(***************************************************************************)
(* C3 amended: ... is installed at exactly its declared version, except    *)
(* that hl7.fhir.r4.core declared at 4.0.0 is installed at 4.0.1.          *)
(***************************************************************************)
C3_DependenciesInstalled ==
    \A p \in Procs :
        result[p] = "true" =>
            /\ Complete(cache, ToDirName(ArgObject(req)))
            /\ \A q \in Visited(p) : \A dep \in Declared(q) :
                   Kept(dep) => Complete(cache, ToDirName(Remapped(dep)))

\* a call returned true with examples installed and r4.core remapped
C3_Witness ==
    \E p \in Procs :
        /\ result[p] = "true"
        /\ ~skipExamples
        /\ IsInstalled([id |-> AppExamples, version |-> V100])
        /\ IsInstalled([id |-> R4Core, version |-> V401])

\* the identifier is well formed and the registry does not serve it
NotInRegistry ==
    /\ req.form = "string" => Trim(req.str) # <<>>
    /\ \/ RegistryData(ArgName(req)).status = 404
       \/ /\ ConcreteVersion(req)
          /\ ArgVersion(req) \notin RegistryData(ArgName(req)).versions

(***************************************************************************)
(* C4: install(X) for an id unknown to the registry, or for a version the  *)
(* metadata does not list, raises a PackageNotFound-class error, sends no  *)
(* tarball request and leaves no cache directory for X.                    *)
(***************************************************************************)
C4_NotFound ==
    \A p \in Procs :
        (Done(p) /\ NotInRegistry) =>
            /\ result[p] = "PackageNotFound"
            /\ \A n \in netLog[p] : n[1] # "tarball"
            /\ \A dir \in DOMAIN cache : Split(dir, "#")[1] # ArgName(req)

(***************************************************************************)
(* C5: when the install of a package of the traversal fails, the top-level *)
(* call rejects with that failure, never returns true, and install() is    *)
(* invoked on no dependency that comes later in iteration order.           *)
(***************************************************************************)
C5_FailureAborts ==
    \A p \in Procs :
        failure[p].err # None =>
            /\ result[p] = failure[p].err
            /\ ~Running(p)
            /\ Len(attempts[p]) = failure[p].at

\* a dependency failed with another dependency still to come after it
C5_Witness ==
    \E p \in Procs :
        /\ failure[p].err # None
        /\ result[p] = "PackageNotFound"
        /\ attempts[p] = << StrArg(Bad \o <<"@">> \o V100),
                            StrArg(Base \o <<"@">> \o V100),
                            StrArg(Ghost \o <<"@">> \o V100) >>

(***************************************************************************)
(* Claims about the registry client                                        *)
(***************************************************************************)
FetchDone == fresult.state \in {"resolved", "rejected"}

\* the requests of the fetch that went out without TLS
Plaintext == {i \in DOMAIN sent : ~sent[i].tls}

\* the requests of the fetch that carried the bearer token
Authorized == {i \in DOMAIN sent : sent[i].auth}

(* C6: every request that carries the Authorization header, first request  *)
(* or redirect target, goes to the host of the configured registry; the    *)
(* token reaches no other host.                                            *)
C6_TokenOnlyToRegistryHost ==
    \A i \in Authorized : Hostname(sent[i].url) = Hostname(RegistryUrl)

(* C7: while allowHttp is not set, no request leaves in plaintext, be it   *)
(* to the first URL or to a redirect target.                               *)
C7_NoPlaintextRequest ==
    ~fcfg.allowHttp => Plaintext = {}

(* C8: a fetch follows at most MaxRedirects redirects, each of them        *)
(* logged; a chain of MaxRedirects redirects is followed to its end, and a *)
(* chain that needs one more fails with TooManyRedirects, which no retry   *)
(* loop retries and after which no request is sent.                        *)
C8_RedirectLimit ==
    /\ \A k \in DOMAIN fstack :
          /\ fstack[k].count = k - 1
          /\ fstack[k].count <= MaxRedirects
          /\ k > 1 => <<fstack[k - 1].url, fstack[k].url>> \in hopLog
    /\ \A i \in DOMAIN sent : sent[i].hop <= MaxRedirects
    /\ tmrAt > 0 =>
          /\ Len(sent) = tmrAt
          /\ \A k \in DOMAIN fstack :
                /\ fstack[k].attempt = 1
                /\ fstack[k].pc \in {"await", "rejected"}
          /\ FetchDone => fresult = [state |-> "rejected",
                             err |-> Failure("TooManyRedirects", None, 0, None)]
    /\ \A k \in 0..MaxChain :
          FetchDone /\ fcfg.url = Hop(k) =>
             IF k <= MaxRedirects
             THEN fresult.state = "resolved" /\ Len(sent) = k + 1
             ELSE tmrAt = MaxRedirects + 1 /\ fresult.err.kind = "TooManyRedirects"

\* a chain of MaxRedirects + 1 redirects has failed, after MaxRedirects + 1 requests
C8_Witness ==
    /\ fcfg.url = Hop(MaxRedirects + 1)
    /\ fresult.state = "rejected"
    /\ fresult.err.kind = "TooManyRedirects"
    /\ Len(sent) = MaxRedirects + 1
    /\ Cardinality(hopLog) = MaxRedirects

(* C9: every retry loop makes at most Retries attempts; it waits DelayMs   *)
(* and tries again only after a failure with code EAI_AGAIN, ENOTFOUND or  *)
(* ECONNRESET and only while attempts remain; a fetch without redirects    *)
(* that fails with a transient error has sent Retries requests, and one    *)
(* that fails otherwise, an HTTP error status included, has sent a single  *)
(* request unless transient errors came before.                            *)
C9_RetryLoop ==
    /\ \A k \in DOMAIN fstack :
          /\ fstack[k].attempt \in 1..Retries
          /\ fstack[k].attempt > 1 => IsTemporary(fstack[k].retriedOn)
          /\ fstack[k].pc = "sleep" =>
                /\ IsTemporary(fstack[k].err.code)
                /\ fstack[k].attempt < Retries
                /\ fstack[k].delay = DelayMs
    /\ fresult.state = "rejected" /\ hopLog = {} =>
          IF IsTemporary(fresult.err.code)
          THEN Len(sent) = Retries
          ELSE /\ Len(sent) <= Retries
               /\ Len(sent) > 1 =>
                     \E c \in {"EAI_AGAIN", "ENOTFOUND", "ECONNRESET"} :
                        NetError(c) \in Respond(fcfg.url)

\* the host was not found three times and the failure reached the caller
C9_Witness ==
    /\ fcfg.url = DownUrl
    /\ fresult.state = "rejected"
    /\ fresult.err.code = "ENOTFOUND"
    /\ Len(sent) = Retries

(* C10: when the fetch ends on a response with status >= 400, metadata or  *)
(* tarball, the failure is typed: AuthenticationFailed for 401,            *)
(* AuthorizationFailed for 403, otherwise a RegistryError with the status  *)
(* and the body of the response.                                           *)
C10_TypedFailure ==
    FetchDone /\ lastStatus >= 400 =>
       /\ fresult.state = "rejected"
       /\ fresult.err.status = lastStatus
       /\ fresult.err.kind = JsonStatusError(lastStatus)
       /\ fresult.err.kind = "RegistryError" => fresult.err.body # None

\* the message of the failure matches /Package not found/: only the message
\* 'HTTP <status>: Package not found' made from a response body does
MatchesPackageNotFound(err) ==
    err.kind = "RegistryError" /\ err.body = "Package not found"

\* checkLatestPackageDist on the token-protected path, installer configured
\* with a token the registry does not accept, has settled
InvalidTokenDone ==
    /\ fcfg.op = "json"
    /\ fcfg.url = SecretUrl
    /\ fcfg.token = "invalid"
    /\ FetchDone

TarballResolved == pure.fn = "getTarballUrl" /\ pure.done /\ pure.out.ok

\* dist.tarball of the version, else its url, when one is there and not empty
DeclaredTarballUrl ==
    LET entry == pure.in.data.versions[pure.in.obj.version]
    IN IF entry.tarball # Undefined THEN entry.tarball ELSE entry.url

(* C12: the URL getTarballUrl returns: for a registry other than the       *)
(* default one, {registryBase}/{id}/-/{id}-{version}.tgz whatever the      *)
(* metadata declares; for the default registry, the tarball URL the        *)
(* metadata declares for the version when there is one, and the template   *)
(* on the secondary host otherwise.                                        *)
C12_TarballUrl ==
    TarballResolved =>
       IF pure.in.registryUrl # DefaultRegistryUrl
       THEN pure.out.url = TemplateUrl(pure.in.registryUrl, pure.in.obj)
       ELSE IF DeclaredTarballUrl \notin {Undefined, <<>>}
       THEN pure.out.url = DeclaredTarballUrl
       ELSE pure.out.url = TemplateUrl(FallbackUrlBase, pure.in.obj)

\* a private registry whose metadata declares a tarball on another host
C12_Witness ==
    /\ TarballResolved
    /\ pure.in.registryUrl = RegistryUrl
    /\ DeclaredTarballUrl = CdnUrl
    /\ pure.out.url = TemplateUrl(RegistryUrl, pure.in.obj)

\* toPackageObject has settled on a string
Parsed == pure.fn = "toPackageObject" /\ pure.done

\* the same identifier written with the other separator
OtherForm ==
    StrArg(IdentifierString(pure.in.name,
                            IF pure.in.sep = "@" THEN "#" ELSE "@",
                            pure.in.version, pure.in.pad))

(* C13: toPackageObject maps 'name@version' and 'name#version' to          *)
(* {id: name, version} and sends no request; it maps a bare 'name' to      *)
(* {id: name, version: dist-tags.latest of the registry}; the '@' form and *)
(* the '#' form of an identifier give the same object, hence the same      *)
(* cache directory, in every operation (all of them go through             *)
(* toPackageObject and toDirName).                                         *)
C13_ToPackageObject ==
    Parsed =>
       /\ pure.in.sep # None /\ pure.in.version # Latest =>
             /\ pure.out.ok
             /\ pure.out.obj = [id |-> pure.in.name, version |-> pure.in.version]
             /\ pure.out.net = {}
       /\ pure.in.sep = None /\ RegistryData(pure.in.name).latest # None =>
             /\ pure.out.ok
             /\ pure.out.obj = [id |-> pure.in.name,
                                version |-> RegistryData(pure.in.name).latest]
             /\ pure.out.net = {<<"meta", pure.in.name>>}
       /\ pure.in.sep # None =>
             /\ ToPackageObject(OtherForm) = pure.out
             /\ pure.out.ok =>
                   ToDirName(ToPackageObject(OtherForm).obj) = ToDirName(pure.out.obj)

\* 'hl7.fhir.r4.core@9.9.9', blanks around or not, has been parsed
C13_Witness ==
    /\ Parsed
    /\ pure.in.name = R4Core
    /\ pure.in.sep = "@"
    /\ pure.in.version = V999
    /\ pure.out.ok
    /\ ToDirName(pure.out.obj) = R4Core \o <<"#">> \o V999

(***************************************************************************)
(* Claims about install(), continued                                       *)
(***************************************************************************)
\* the install() invocations that have gone past toPackageObject: what they
\* do from there on (isInstalled, cachePackage, index and manifest reads) is
\* keyed by toDirName of their identifier
Keyed(p) == {k \in DOMAIN pstack[p] : pstack[p][k].pc \notin {"resolve", "check"}}

(* C14: every cache interaction is keyed by a concrete version: once an    *)
(* install() invocation has looked at the cache, the version of its        *)
(* identifier is neither empty nor 'latest', and no directory named        *)
(* '{id}#latest' exists in the cache.                                      *)
C14_ConcreteKeys ==
    /\ \A p \in Procs : \A k \in Keyed(p) :
          pstack[p][k].obj.version \notin {Latest, <<>>}
    /\ \A d \in DOMAIN cache : cache[d].version \notin {Latest, <<>>}

\* the id marks example content: it contains 'examples'
IsExample(id) == Includes(id, "examples")

\* the ids install() was invoked on as dependencies by the current call of p
DependencyIds(p) == {ArgName(attempts[p][k]) : k \in 2..Len(attempts[p])}

(* C15: with skipExamples set, install() is invoked on no dependency whose *)
(* id contains 'examples', nothing that only such a dependency needs gets  *)
(* into the cache, and when the call returns true every other declared     *)
(* dependency of the packages reached is installed; for the manifest of    *)
(* app (lib, app.examples, hl7.fhir.r4.core) the cache ends with app, lib, *)
(* base and r4.core only. With skipExamples unset every declared           *)
(* dependency is installed.                                                *)
C15_SkipExamples ==
    \A p \in Procs :
        /\ skipExamples =>
              /\ \A id \in DependencyIds(p) : ~IsExample(id)
              /\ \A d \in DOMAIN cache :
                    ~IsExample(cache[d].id) /\ cache[d].id # Fixtures
        /\ result[p] = "true" =>
              \A q \in Visited(p) : \A dep \in Declared(q) :
                  (~skipExamples \/ ~IsExample(dep[1])) =>
                      Complete(cache, ToDirName(Remapped(dep)))
        /\ result[p] = "true" /\ ArgName(req) = App =>
              DOMAIN cache =
                 {ToDirName(q) : q \in
                    {[id |-> App, version |-> V100], [id |-> Lib, version |-> V100],
                     [id |-> Base, version |-> V100], [id |-> R4Core, version |-> V401]}
                    \cup IF skipExamples THEN {}
                         ELSE {[id |-> AppExamples, version |-> V100],
                               [id |-> Fixtures, version |-> V100]}}

\* app was installed with skipExamples set: its example dependency was passed over
C15_Witness ==
    \E p \in Procs :
        /\ skipExamples
        /\ result[p] = "true"
        /\ ArgName(req) = App
        /\ IsInstalled([id |-> Lib, version |-> V100])
        /\ ~IsInstalled([id |-> AppExamples, version |-> V100])

\* hl7.fhir.r4.core at the version some manifests declare by mistake
R4Core400 == [id |-> R4Core, version |-> V400]
R4Core401 == [id |-> R4Core, version |-> V401]

(* C16: a dependency declared as hl7.fhir.r4.core 4.0.0 is installed as    *)
(* hl7.fhir.r4.core@4.0.1: install() is never invoked on version 4.0.0 as  *)
(* a dependency, no tarball of 4.0.0 is requested, no directory            *)
(* hl7.fhir.r4.core#4.0.0 is created, and when the call returns true the   *)
(* directory hl7.fhir.r4.core#4.0.1 is complete.                           *)
C16_VersionRemap ==
    \A p \in Procs :
        /\ \A k \in 2..Len(attempts[p]) : ArgObject(attempts[p][k]) # R4Core400
        /\ <<"tarball", GetTarballUrl(DefaultRegistryUrl, PackageData(R4Core),
                                      R4Core400).url>> \notin netLog[p]
        /\ ~IsInstalled(R4Core400)
        /\ (result[p] = "true" /\ \E q \in Visited(p) : <<R4Core, V400>> \in Declared(q))
              => Complete(cache, ToDirName(R4Core401))

\* a package declaring hl7.fhir.r4.core 4.0.0 was installed
C16_Witness ==
    \E p \in Procs :
        /\ result[p] = "true"
        /\ \E q \in Visited(p) : <<R4Core, V400>> \in Declared(q)
        /\ StrArg(R4Core \o <<"@">> \o V401) \in {attempts[p][k] : k \in DOMAIN attempts[p]}
        /\ IsInstalled(R4Core401)

(***************************************************************************)
(* Claims about the package index                                          *)
(***************************************************************************)
\* the entries of a 'files' array, as they read once written to JSON
FileSet(files) == {ToJson(files[i]) : i \in DOMAIN files}

\* the .json files directly under package/ of the directory, other than
\* package.json and those ending in .index.json
QualifyingFiles ==
    {f \in {FileA, FileB, FileC} : <<"package", f>> \in DOMAIN ix.dir}

\* every index the package has shown: the file, and what the calls returned
IndexEntries ==
    FileSet(ix.index.files) \cup FileSet(ix.first.files) \cup FileSet(ix.ret.files)
    \cup {ix.ret.files[i] : i \in DOMAIN ix.ret.files}

\* the text the entry was made from
SourceOf(entry) == ix.dir[<<"package", entry["filename"].v>>]

(* C17: for an installed package, the index getPackageIndexFile returns    *)
(* right after install and the one it returns after the index file was     *)
(* deleted and regenerated have 'files' arrays that are equal as sets.     *)
C17_RoundTrip ==
    (ix.first.set /\ ix.ret.gen) =>
       /\ ix.ret.ok
       /\ FileSet(ix.ret.files) = FileSet(ix.first.files)

(* C18: after install the 'files' array of the index has exactly one entry *)
(* for each qualifying file of the package directory and no other entry.   *)
C18_OneEntryPerFile ==
    ix.pc = "installed" =>
       /\ {e["filename"].v : e \in FileSet(ix.index.files)} = QualifyingFiles
       /\ Len(ix.index.files) = Cardinality(QualifyingFiles)

(* C19: in every index entry, from extraction or from regeneration, a      *)
(* field that is absent or not a scalar in the source file is omitted, and *)
(* no field is null.                                                       *)
C19_NoNullFields ==
    \A entry \in IndexEntries :
       \A k \in EntryFields \ {"filename"} :
          /\ (k \notin DOMAIN SourceOf(entry).members
                \/ SourceOf(entry).members[k].t \in {"object", "array"})
                => k \notin DOMAIN ToJson(entry)
          /\ k \in DOMAIN entry => entry[k].t # "null"

(* C20: getPackageIndexFile returns the parsed index file when the file    *)
(* exists; when it is missing it scans every qualifying file, writes the   *)
(* index file and returns the result: after a call that did not throw the  *)
(* index file exists and holds what the call returned.                     *)
C20_GetPackageIndexFile ==
    (ix.pc = "got" /\ ix.ret.ok) =>
       /\ ix.index.exists
       /\ ix.index.files = [i \in DOMAIN ix.ret.files |-> ToJson(ix.ret.files[i])]
       /\ ix.ret.gen =>
             /\ {e["filename"].v : e \in FileSet(ix.ret.files)} = QualifyingFiles
             /\ Len(ix.ret.files) = Cardinality(QualifyingFiles)

\* the index file was deleted and the call made it again from two files
C20_Witness ==
    /\ ix.pc = "got"
    /\ ix.ret.ok
    /\ ix.ret.gen
    /\ ix.index.exists
    /\ Len(ix.ret.files) = 2

(***************************************************************************)
(* Claims about the public operations over the cache                       *)
(***************************************************************************)
\* the latest call was op, and its identifier names a package
CallOf(op) == ops.call.op = op /\ ToPackageObject(ops.call.arg).ok

\* the cache directory of the identifier of the latest call
CallDir == ToDirName(ToPackageObject(ops.call.arg).obj)

(* C21: getPackageIndexFile for a package that is not installed rejects    *)
(* with ENOENT, and creates neither a cache directory nor an index file: a *)
(* rejected call leaves the cache as it found it.                          *)
C21_NotInstalled ==
    /\ (CallOf("getPackageIndexFile") /\ CallDir \notin DOMAIN ops.before) =>
          /\ ~ops.call.ok
          /\ ops.call.val = <<"ENOENT">>
    /\ (ops.call.op = "getPackageIndexFile" /\ ~ops.call.ok) => cache = ops.before

\* the index of ghost 1.0.0, which nobody installed, was asked for
C21_Witness ==
    /\ ops.call.op = "getPackageIndexFile"
    /\ ops.call.arg = ObjArg(Ghost, V100)
    /\ ops.call.val = <<"ENOENT">>
    /\ ToDirName([id |-> Ghost, version |-> V100]) \notin DOMAIN cache

(* C22: isInstalled(X) returns true exactly when the cache directory of X  *)
(* exists when the call is made, whatever it holds and whoever created or  *)
(* removed it; the call changes nothing.                                   *)
C22_IsInstalled ==
    CallOf("isInstalled") =>
       /\ ops.call.ok
       /\ ops.call.val = <<"true">> <=> CallDir \in DOMAIN ops.before
       /\ ops.call.val \in {<<"true">>, <<"false">>}
       /\ cache = ops.before

\* lib 1.0.0 was in the cache, another process removed the directory, and
\* isInstalled returned false
C22_Witness ==
    /\ CallOf("isInstalled")
    /\ CallDir = ToDirName(Lib100)
    /\ CallDir \in ops.gone
    /\ ops.call.val = <<"false">>

(* C23: installLocalPackage for a package that is already in the cache:    *)
(* without override it returns false and leaves the cache entry unchanged; *)
(* with override=true it replaces the entry and returns true; in both      *)
(* cases the package is installed when the call returns.                   *)
C23_InstallLocalOverride ==
    (ops.call.op = "installLocalPackage" /\ ToDirName(Lib100) \in DOMAIN ops.before) =>
       /\ ops.call.ok
       /\ IsInstalled(Lib100)
       /\ IF ops.call.opt.override
          THEN /\ ops.call.val = <<"true">>
               /\ cache[ToDirName(Lib100)].files = LocalTree(ops.call.opt.src).files
          ELSE /\ ops.call.val = <<"false">>
               /\ cache = ops.before

\* the path the latest downloadPackage call moves the package to
CallPath == DownloadPath(ToPackageObject(ops.call.arg).obj, ops.call.opt.extract)

\* the latest call was downloadPackage of a package the registry serves, to
\* a destination that was there already
DownloadOnto ==
    /\ CallOf("downloadPackage")
    /\ Available(ToPackageObject(ops.call.arg).obj)
    /\ CallPath \in DOMAIN ops.destBefore

(* C24: downloadPackage without overwrite rejects with 'dest already       *)
(* exists.' when the destination exists, and leaves it unchanged; with     *)
(* overwrite=true the same call succeeds, returns the destination path and *)
(* the destination holds the download. A rejected call never changes the   *)
(* destination.                                                            *)
C24_DownloadOverwrite ==
    /\ DownloadOnto =>
          IF ops.call.opt.overwrite
          THEN /\ ops.call.ok
               /\ ops.call.val = CallPath
               /\ ops.dest[CallPath] = "downloaded"
          ELSE /\ ~ops.call.ok
               /\ ops.call.val = <<"dest already exists.">>
               /\ ops.dest = ops.destBefore
    /\ (ops.call.op = "downloadPackage" /\ ~ops.call.ok) => ops.dest = ops.destBefore

\* an extracted download replaced what was at the destination
C24_Witness ==
    /\ DownloadOnto
    /\ ops.call.opt.extract
    /\ ops.call.opt.overwrite
    /\ ops.destBefore[CallPath] = "old"
    /\ ops.dest[CallPath] = "downloaded"

(***************************************************************************)
(* Claims about shallowParse                                               *)
(***************************************************************************)
\* the top-level keys of doc whose value is a string, number, boolean or null
PrimitiveKeys(doc) ==
    {k \in DOMAIN FullParse(doc) : FullParse(doc)[k].t \notin {"object", "array"}}

(* C25: for every text that is a valid JSON object, shallowParse returns   *)
(* exactly the mapping a full JSON parse yields when restricted to the     *)
(* top-level keys whose value is a string, a number, a boolean or null,    *)
(* keys and string values unescaped, and no key whose value is an array or *)
(* an object.                                                              *)
C25_ShallowParse ==
    (pure.fn = "shallowParse" /\ pure.done) =>
       /\ pure.out.ok
       /\ pure.out.value = [k \in PrimitiveKeys(pure.in.doc) |->
                               FullParse(pure.in.doc)[k]]

(***************************************************************************)
(* Claims about the cache step under concurrency                           *)
(***************************************************************************)
\* the caller whose staged tree the cache directory holds
Winner(dir) == cache[dir].tmp[1]

\* the directory is one staged tree, whole: the tree of one extraction of
\* the package the directory is named after
OneStagedTree(dir) ==
    /\ Winner(dir) \in Procs
    /\ ToDirName([id |-> cache[dir].id, version |-> cache[dir].version]) = dir
    /\ cache[dir].files = ArchiveFiles(cache[dir].id, cache[dir].version)
    /\ cache[dir].deps = ManifestDeps(cache[dir].id, cache[dir].version)

\* a step leaves every existing cache directory with the tree it had
EntriesFrozen ==
    \A dir \in DOMAIN cache :
        /\ dir \in DOMAIN cache'
        /\ cache'[dir].tmp = cache[dir].tmp
        /\ cache'[dir].files = cache[dir].files

(* C26: when several installers race through the cache step for one        *)
(* identifier, at most one move succeeds: a cache directory, once there,   *)
(* keeps the tree it was created with; a caller that lost the race raises  *)
(* nothing and goes on with the existing directory, its staged copy stays  *)
(* out of the cache; every cache directory is wholly the staged tree of    *)
(* one extraction, never a mixture of two.                                 *)
C26_OneWinner ==
    /\ [](/\ \A dir \in DOMAIN cache : OneStagedTree(dir)
          /\ \A p \in Procs :
                warned[p] =>
                   /\ result[p] \in {"running", "true"}
                   /\ \E dir \in DOMAIN cache : Winner(dir) # p)
    /\ [][EntriesFrozen]_vars

\* both callers are done, one of them lost the race for lib#1.0.0 and the
\* directory holds the other's tree
C26_Witness ==
    /\ \A p \in Procs : Done(p) /\ result[p] = "true"
    /\ \E p \in Procs :
          /\ warned[p]
          /\ IsInstalled(Lib100)
          /\ Winner(ToDirName(Lib100)) # p

(***************************************************************************)
(* Claims about the extraction engine                                      *)
(***************************************************************************)
\* the index file of the extraction is on disk
IndexWritten == ex.indexFile["extract"].written

\* the staged tree of the extraction is in the cache
StagedInCache == ToDirName(Lib100) \in DOMAIN cache

(* C27: within one install, the index file is written only after every     *)
(* submitted entry work item (write and scan) has completed: when it is    *)
(* there, every entry of the archive was submitted, every item is done and *)
(* the index was assembled from all of them; the staged tree is moved into *)
(* the cache only after the index file has been written.                   *)
C27_IndexAfterItems ==
    /\ IndexWritten =>
          /\ Submitted(ex, "extract") = ItemsOf("extract")
          /\ \A it \in ItemsOf("extract") : ex.st[it] = "done"
          /\ ex.indexFile["extract"].files = ItemsOf("extract")
    /\ StagedInCache => IndexWritten

\* the install has moved the staged tree, with its index, into the cache
\* while the index generation still has items running
C27_Witness ==
    /\ StagedInCache
    /\ IndexWritten
    /\ ex.pc["extract"] = "cached"
    /\ \E it \in ItemsOf("generate") : ex.st[it] \in Active

\* a step in which a waiting item starts is a step in which a running one
\* settles
StartsOnlyOnRelease ==
    \A it \in Items :
       (ex.st[it] = "queued" /\ ex'.st[it] \in Active) =>
          \E other \in Items :
             /\ ex.st[other] \in Active
             /\ ex'.st[other] \in {"done", "failed"}

(* C28: at every moment at most L = max(4, number of CPUs) work items are  *)
(* running, counted over the extraction and the index generation of the    *)
(* process together; an item waits only while L are running and starts     *)
(* only when a running one finishes; every submitted item eventually runs: *)
(* the waiting items are the queue, and a queue that holds items           *)
(* eventually holds none, which its items leave only by starting.          *)
C28_Limiter ==
    /\ [](LET L == IF NCpus >= 4 THEN NCpus ELSE 4
          IN  /\ ActiveCount(ex.st) <= L
              /\ ex.queue # <<>> => ActiveCount(ex.st) = L
              /\ \A it \in Items :
                    ex.st[it] = "queued" <=> \E i \in 1..Len(ex.queue) : ex.queue[i] = it)
    /\ [][StartsOnlyOnRelease]_vars
    /\ (ex.queue # <<>>) ~> (ex.queue = <<>>)

\* L items of the extraction and of the index generation are running and an
\* entry of the archive waits
C28_Witness ==
    /\ ActiveCount(ex.st) = Concurrency
    /\ \E it \in ItemsOf("extract") : ex.st[it] \in Active
    /\ \E it \in ItemsOf("generate") : ex.st[it] \in Active
    /\ \E it \in ItemsOf("extract") : ex.st[it] = "queued"

\* something of the extraction has failed
ExtractionFault == ex.faults["extract"] # <<>>

\* extractTarball has thrown
ExtractionFailed == ex.pc["extract"] = "failed"

(* C29: if decompression fails mid-stream or the write of any single entry *)
(* fails, the extraction fails with that first failure: the error          *)
(* extractTarball throws is the first failure of the extraction.           *)
C29_FirstFailure ==
    ExtractionFailed => ex.err["extract"] = Head(ex.faults["extract"])

\* what does hold of a failed extraction: it reaches no index file, no
\* staging path and no cache directory, and extractTarball eventually throws
\* one of the failures: the one that rejected the pipeline, or else the first
\* entry that failed
FailurePropagates ==
    /\ [](ExtractionFault =>
             /\ ex.pc["extract"] \notin {"indexed", "cached"}
             /\ ~IndexWritten
             /\ ~StagedInCache)
    /\ [](ExtractionFailed =>
             /\ \E i \in 1..Len(ex.faults["extract"]) :
                   ex.faults["extract"][i] = ex.err["extract"]
             /\ \/ ex.err["extract"].via = "pipeline"
                \/ ex.err["extract"] = Head(ex.faults["extract"]))
    /\ ExtractionFault ~> ExtractionFailed

(***************************************************************************)
(* Claims about the dependency loop                                        *)
(***************************************************************************)
\* the argument the loop installs a dependency with
DepArg(dep) == StrArg(dep[1] \o <<"@">> \o dep[2])

\* the loop passes over the dependency
Skipped(dep) == skipExamples /\ Includes(dep[1], "examples")

\* the dependency and everything it needs is in the cache
WhollyInstalled(dep) ==
    \A q \in Reached(ArgObject(DepArg(dep)), 4) : IsInstalled(q)

\* a step moves the loop of an invocation by at most one dependency
LoopStepsByOne ==
    \A p \in Procs :
       \A n \in 1..Len(pstack[p]) :
          (/\ n <= Len(pstack'[p])
           /\ pstack[p][n].pc = "loop"
           /\ pstack'[p][n].pc = "loop") =>
              pstack'[p][n].i \in {pstack[p][n].i, pstack[p][n].i + 1}

(* C30: within one top-level install call, dependency installs never       *)
(* overlap: the installs in progress are one chain, each awaiting the      *)
(* install of the dependency its loop stands at; the loop stands at a      *)
(* dependency only when every dependency before it, in manifest order, was *)
(* passed over or is installed with everything it needs; the loop moves    *)
(* one dependency at a time.                                               *)
C30_Sequential ==
    /\ [](\A p \in Procs :
            \A n \in 1..Len(pstack[p]) :
               LET f == pstack[p][n]
               IN  /\ n < Len(pstack[p]) =>
                         /\ f.pc = "loop"
                         /\ f.i \in 1..Len(f.deps)
                         /\ pstack[p][n + 1].arg = DepArg(f.deps[f.i])
                   /\ f.pc = "loop" =>
                         \A j \in 1..(f.i - 1) :
                            j <= Len(f.deps) =>
                               Skipped(f.deps[j]) \/ WhollyInstalled(f.deps[j]))
    /\ [][LoopStepsByOne]_vars

\* the install of app stands at its third dependency, whose install is in
\* progress, after lib and app.examples were installed with what they need
C30_Witness ==
    /\ Len(pstack[1]) >= 2
    /\ pstack[1][1].pc = "loop"
    /\ pstack[1][1].i = 3
    /\ ~skipExamples
    /\ budget[1] = MaxCalls - 1
    /\ WhollyInstalled(pstack[1][1].deps[1])
    /\ WhollyInstalled(pstack[1][1].deps[2])
    /\ ~IsInstalled(ArgObject(DepArg(pstack[1][1].deps[3])))

(***************************************************************************)
(* One cache entry file by file: installLocalPackage, install and          *)
(* getPackageIndexFile run concurrently on the same package, each await    *)
(* a step                                                                  *)
(***************************************************************************)
\* the package as the registry's tarball and as the local source hold it
TreeFrom(origin) == [f \in PackageFiles |-> origin]

\* fs.exists(getPackageDirPath(packageObject))
IsInstalledDir(entry) == entry.dir

\* the entry holds every file of the package
Whole(entry) == entry.dir /\ \A f \in PackageFiles : entry.files[f] # Absent

At2(k, pc) == loc.c[k].pc = pc

\* caller k goes on to pc
Goto(k, pc) == [loc EXCEPT !.c[k].pc = pc]

\* cachePackage of caller k returns finalPath and the caller goes on to pc
CacheReturn(l, k, pc) ==
    [l EXCEPT !.c[k].pc = pc, !.c[k].cached = TRUE,
              !.c[k].dirAtReturn = l.entry.dir]

\* variant: only 'dest already exists' is caught, anything else is thrown
CacheCatch_Rethrow(l, k, error, pc) ==
    IF error = "dest already exists"
    THEN CacheReturn([l EXCEPT !.c[k].warned = TRUE, !.c[k].err = error], k, pc)
    ELSE [l EXCEPT !.c[k].pc = "done", !.c[k].err = error, !.c[k].out = "throw"]

\* cachePackage of caller k catches what the move or copy threw
CacheCatch(l, k, error, pc) ==
    CacheReturn([l EXCEPT !.c[k].warned = TRUE, !.c[k].err = error], k, pc)

\* installLocalPackage: alreadyInstalled = await isInstalled(packageObject)
LocalCheck ==
    /\ At2("installLocalPackage", "start")
    /\ loc' = IF IsInstalledDir(loc.entry) /\ ~loc.override
              THEN [loc EXCEPT !.c["installLocalPackage"].pc = "done",
                               !.c["installLocalPackage"].out = "false"]
              ELSE Goto("installLocalPackage", "remove")

\* fs.remove(getPackageDirPath(packageObject)) deletes one file of the
\* directory
LocalRemoveFile ==
    /\ At2("installLocalPackage", "remove")
    /\ loc.entry.dir
    /\ \/ \E f \in PackageFiles :
            /\ loc.entry.files[f] # Absent
            /\ loc' = [loc EXCEPT !.entry.files[f] = Absent]
       \/ /\ loc.entry.index # None
          /\ loc' = [loc EXCEPT !.entry.index = None]

\* fs.remove has emptied the directory and removes it, or there was none
LocalRemoveDir ==
    /\ At2("installLocalPackage", "remove")
    /\ loc.entry.dir =>
          /\ \A f \in PackageFiles : loc.entry.files[f] = Absent
          /\ loc.entry.index = None
    /\ loc' = [Goto("installLocalPackage", "cache") EXCEPT !.entry = NoEntry]

\* cachePackage: isInstalled = await this.isInstalled(packageObject)
CacheCheck(k, next) ==
    /\ At2(k, "cache")
    /\ loc' = IF IsInstalledDir(loc.entry)
              THEN CacheReturn(loc, k, next)
              ELSE Goto(k, "place")

\* fs.move(src, finalPath, {overwrite: false}): the rename puts the whole
\* tree in place, or the destination exists and it throws
Move(k, origin, next) ==
    /\ At2(k, "place")
    /\ loc' = IF loc.entry.dir
              THEN CacheCatch(loc, k, "dest already exists", next)
              ELSE CacheReturn([loc EXCEPT !.entry.dir = TRUE,
                                           !.entry.files = TreeFrom(origin)],
                               k, next)

\* the move or the copy fails for another reason (no space, no permission)
PlaceFails(k, next) ==
    /\ At2(k, "place")
    /\ loc' = CacheCatch(loc, k, "ENOSPC", next)

\* fs.copy(src, finalPath, {overwrite: false}) makes the destination
\* directory if there is none
LocalCopyMkdir ==
    /\ At2("installLocalPackage", "place")
    /\ loc.isDirectory
    /\ ~loc.entry.dir
    /\ loc' = [loc EXCEPT !.entry.dir = TRUE]

\* fs.copy copies one file; a file that is there already is left as it is
LocalCopyFile ==
    /\ At2("installLocalPackage", "place")
    /\ loc.isDirectory
    /\ loc.entry.dir
    /\ \E f \in PackageFiles \ loc.c["installLocalPackage"].copied :
          loc' = [loc EXCEPT
                    !.entry.files[f] = IF @ = Absent THEN "local" ELSE @,
                    !.c["installLocalPackage"].copied = @ \cup {f}]

\* fs.copy has dealt with every file: cachePackage returns
LocalCopyDone ==
    /\ At2("installLocalPackage", "place")
    /\ loc.isDirectory
    /\ loc.entry.dir
    /\ loc.c["installLocalPackage"].copied = PackageFiles
    /\ loc' = CacheReturn(loc, "installLocalPackage", "index")

\* installLocalPackage from a tarball: the extracted tree is moved
LocalMove ==
    /\ ~loc.isDirectory
    /\ Move("installLocalPackage", "local", "index")

\* generatePackageIndex: fs.writeJSON opens the index file, which truncates
\* it; without a directory to write into it throws
IndexOpen(k) ==
    /\ At2(k, "index")
    /\ loc' = IF loc.entry.dir
              THEN [Goto(k, "write") EXCEPT !.entry.index = "open"]
              ELSE [loc EXCEPT !.c[k].pc = "done", !.c[k].out = "throw"]

\* fs.writeJSON has written the whole text
IndexClose(k) ==
    /\ At2(k, "write")
    /\ loc' = [loc EXCEPT !.c[k].pc = "done", !.c[k].out = "ok",
                          !.entry.index = IF @ = "open" THEN "whole" ELSE @]

\* install: the cache check
InstallCheckDir ==
    /\ At2("install", "start")
    /\ loc' = IF IsInstalledDir(loc.entry) THEN Goto("install", "deps")
              ELSE Goto("install", "download")

\* install: downloadAndExtractTarball
InstallDownload ==
    /\ At2("install", "download")
    /\ loc' = Goto("install", "cache")

\* installPackageDependencies: getDependencies reads the manifest
InstallReadManifest ==
    /\ At2("install", "deps")
    /\ loc' = [loc EXCEPT
                 !.c["install"].pc = "done",
                 !.c["install"].saw =
                     IF ~loc.entry.dir THEN "no directory"
                     ELSE IF Whole(loc.entry) THEN "whole" ELSE "partial",
                 !.c["install"].out =
                     IF loc.entry.files["package.json"] # Absent THEN "ok"
                     ELSE "throw"]

\* getPackageIndexFile: fs.exists(indexPath)
IndexExists ==
    /\ At2("getPackageIndexFile", "start")
    /\ loc' = IF loc.entry.index # None THEN Goto("getPackageIndexFile", "read")
              ELSE Goto("getPackageIndexFile", "index")

\* getPackageIndexFile: fs.readJSON(indexPath)
IndexRead ==
    /\ At2("getPackageIndexFile", "read")
    /\ loc' = [loc EXCEPT
                 !.c["getPackageIndexFile"].pc = "done",
                 !.c["getPackageIndexFile"].saw =
                     IF loc.entry.index = None THEN "missing" ELSE loc.entry.index,
                 !.c["getPackageIndexFile"].out =
                     IF loc.entry.index = "whole" THEN "ok" ELSE "throw"]

InitLocal ==
    /\ InitCommon
    /\ OpsIdle
    /\ ExIdle
    /\ FetchIdle
    /\ PureIdle
    /\ IxIdle
    /\ req = StrArg(Lib)
    /\ skipExamples = FALSE
    /\ budget = [p \in Procs |-> 0]
    /\ \E entry \in {NoEntry,
                     [dir |-> TRUE, files |-> TreeFrom("registry"), index |-> None],
                     [dir |-> TRUE, files |-> TreeFrom("registry"), index |-> "whole"]},
          override \in BOOLEAN, isDirectory \in BOOLEAN :
          loc = [entry |-> entry, override |-> override, isDirectory |-> isDirectory,
                 c |-> [k \in Callers |-> NotBegun]]

NextLocal ==
    /\ \/ LocalCheck
       \/ LocalRemoveFile
       \/ LocalRemoveDir
       \/ CacheCheck("installLocalPackage", "index")
       \/ LocalMove
       \/ PlaceFails("installLocalPackage", "index")
       \/ LocalCopyMkdir
       \/ LocalCopyFile
       \/ LocalCopyDone
       \/ IndexOpen("installLocalPackage")
       \/ IndexClose("installLocalPackage")
       \/ InstallCheckDir
       \/ InstallDownload
       \/ CacheCheck("install", "deps")
       \/ Move("install", "registry", "deps")
       \/ PlaceFails("install", "deps")
       \/ InstallReadManifest
       \/ IndexExists
       \/ IndexRead
       \/ IndexOpen("getPackageIndexFile")
       \/ IndexClose("getPackageIndexFile")
    /\ UNCHANGED <<installVars, fetchVars, pure, ix, ops, ex>>

SpecLocal == InitLocal /\ [][NextLocal]_vars

(***************************************************************************)
(* Claims about what install downloads                                     *)
(***************************************************************************)
\* the step takes the running invocation of p from the cache check to the
\* download
ChecksThenDownloads(p) ==
    /\ At(p, "check")
    /\ Len(pstack'[p]) = Len(pstack[p])
    /\ pstack'[p][Len(pstack'[p])].pc = "download"

(* C31: install never downloads a package whose cache directory exists     *)
(* when the traversal reaches it: the cache check goes on to the download  *)
(* only when the directory is not there, and with one caller a download    *)
(* is under way only for a package that has no directory; on a first call, *)
(* on a retried call after a failure, and when the graph reaches a package *)
(* again.                                                                  *)
C31_NoDownloadOfCached ==
    /\ [](\A p \in Procs : At(p, "download") => ~IsInstalled(Top(p).obj))
    /\ [][\A p \in Procs : ChecksThenDownloads(p) => ~IsInstalled(Top(p).obj)]_vars

\* the retried install of bad@1.0.0, after the first call failed at ghost,
\* has reached base again and went from the cache check to the index without
\* a download
C31_Witness ==
    /\ budget[1] = 0
    /\ prev[1] \notin {None, "true", "running"}
    /\ Len(pstack[1]) = 2
    /\ At(1, "index")
    /\ Top(1).obj.id = Base
    /\ \A e \in netLog[1] : e[1] # "tarball"

(***************************************************************************)
(* Claims about redirects and retries                                      *)
(***************************************************************************)
\* the URL is on the host of the registry
OnRegistryHost(url) == Hostname(url) = Hostname(RegistryUrl)

\* request j was answered with a redirect that request i followed
FollowUp(j, i) ==
    /\ sent[i].hop = sent[j].hop + 1
    /\ j < i
    /\ <<sent[j].url, sent[i].url>> \in hopLog

(* C33: when a request to the registry is answered with a redirect to a    *)
(* URL on the registry's own host, the follow-up request carries the same  *)
(* Authorization: Bearer header as the request it follows, at every hop:   *)
(* with a token configured both carry it.                                  *)
C33_SameHostRedirect ==
    \A i, j \in 1..Len(sent) :
       (/\ FollowUp(j, i)
        /\ OnRegistryHost(sent[j].url)
        /\ OnRegistryHost(sent[i].url)) =>
           /\ sent[i].auth = sent[j].auth
           /\ fcfg.token # None => sent[i].auth

\* a chain of three redirects on the registry was followed with the token at
\* every hop and the fetch resolved
C33_Witness ==
    /\ fcfg.token = "valid"
    /\ fcfg.url = Hop(3)
    /\ fresult.state = "resolved"
    /\ Len(sent) = 4
    /\ \A i \in 1..Len(sent) : sent[i].auth /\ sent[i].hop = i - 1

\* the requests sent to url
RequestsTo(url) == {i \in 1..Len(sent) : sent[i].url = url}

\* the redirects the fetch has followed so far
RedirectsFollowed ==
    IF sent = <<>> THEN 0
    ELSE CHOOSE k \in 0..MaxRedirects :
            /\ \E i \in 1..Len(sent) : sent[i].hop = k
            /\ \A i \in 1..Len(sent) : sent[i].hop <= k

(* C37: one fetch that follows k redirects sends at most 3 requests to     *)
(* each URL on the chain, hence at most 3 * (k + 1) requests in total.     *)
C37_RetryBound ==
    /\ \A i \in 1..Len(sent) : Cardinality(RequestsTo(sent[i].url)) <= Retries
    /\ Len(sent) <= Retries * (RedirectsFollowed + 1)

(***************************************************************************)
(* Claims about refused metadata requests                                  *)
(***************************************************************************)
(* C34: when the registry answers the metadata request made during         *)
(* install(X) with 401 or 403, install raises AuthenticationFailed or      *)
(* AuthorizationFailed respectively, not PackageNotFound and not a generic *)
(* registry error.                                                         *)
C34_AuthFailures ==
    \A p \in Procs :
       (Done(p) /\ RegistryData(ArgName(req)).status \in {401, 403}) =>
          result[p] = JsonStatusError(RegistryData(ArgName(req)).status)

(***************************************************************************)
(* Claims about termination                                                *)
(***************************************************************************)
\* the packages whose installs are in progress for p, outermost first
Chain(p) ==
    [n \in 1..Len(pstack[p]) |->
        IF pstack[p][n].pc = "resolve"
        THEN ArgObject(pstack[p][n].arg)
        ELSE pstack[p][n].obj]

(* C36: install(X) terminates for every finite dependency graph in which   *)
(* each dependency cycle reachable from X consists only of packages that   *)
(* are already in the cache. An install that terminates never reaches,     *)
(* beneath the install of a package, the install of that same package with *)
(* the cache as it was: it would take the same steps again, without end.   *)
(* So: no package stands twice in the chain of installs in progress.       *)
C36_Terminates ==
    \A p \in Procs :
       \A i, j \in 1..Len(pstack[p]) :
          Chain(p)[i] = Chain(p)[j] => i = j

\* C35: every file an extraction writes lies inside that extraction's own
\* staging directory, whatever the name of the archive entry; in particular
\* it lies neither under the cache root nor in another extraction's
\* staging directory
C35_InsideStaging ==
    (pure.fn = "fullPath" /\ pure.done) =>
        /\ StartsWith(pure.out, pure.in.tempDirectory)
        /\ ~StartsWith(pure.out, CachePath)
        /\ \A d \in TempDirectories \ {pure.in.tempDirectory} :
              ~StartsWith(pure.out, d)

\* the part that holds: the staging directories of two extractions differ
\* (temp.mkdirSync() makes a new directory at every call)
FreshStaging ==
    \A p, q \in Procs :
        (p # q /\ At(p, "extract") /\ At(q, "extract")) => TempDir(p) # TempDir(q)

(***************************************************************************)
(* Claims about concurrent calls on one cache entry                        *)
(***************************************************************************)
\* the step removes the directory of the entry or changes one of its files
TouchesFiles ==
    \/ ~loc'.entry.dir
    \/ loc'.entry.files # loc.entry.files

\* C32: an entry that is whole in the cache keeps its directory and its
\* package files in every step of every interleaving, unless
\* installLocalPackage was called with override
C32_OnlyOverride ==
    [][(Whole(loc.entry) /\ TouchesFiles) => loc.override]_vars

\* C38: when cachePackage has returned a path the cache directory existed at
\* the return, and if it warned 'already installed by another process' the
\* move had failed because the destination exists
C38_CacheReturn ==
    \A k \in Callers :
        loc.c[k].cached =>
            /\ loc.c[k].dirAtReturn
            /\ loc.c[k].warned => loc.c[k].err = "dest already exists"

\* C39: in every state, a cache directory that exists holds the manifest
\* and every file of the package, and no call has read a partial entry
C39_WholeEntry ==
    /\ loc.entry.dir => Whole(loc.entry)
    /\ \A k \in Callers : loc.c[k].saw # "partial"

\* C40: when getPackageIndexFile reads an index file that is there, what it
\* reads is a whole index, also while another call writes the file; and
\* once every call has ended the index file, if there is one, is whole
C40_WholeIndex ==
    /\ loc.c["getPackageIndexFile"].saw \in {None, "missing", "whole"}
    /\ (\A k \in Callers : loc.c[k].pc = "done") => loc.entry.index \in {None, "whole"}

====
